---- MODULE Spec2Model ----
(***************************************************************************)
(* RagFlow: ingestion (parse, chunk, embed, index), the FAISS-backed       *)
(* vector store with its two persisted files, retrieval and the answer     *)
(* router.  Text is a sequence of one-character strings; a similarity is   *)
(* an integer number of hundredths (0.30 is 30).                           *)
(***************************************************************************)
EXTENDS Integers, Sequences, FiniteSets, TLC

(***************************************************************************)
(* Bounds of the model.                                                    *)
(***************************************************************************)
MaxDocs == 3
MaxAsks == 1

(***************************************************************************)
(* Small helpers.                                                          *)
(***************************************************************************)
Max2(a, b) == IF a >= b THEN a ELSE b

Min2(a, b) == IF a <= b THEN a ELSE b

Range(s) == {s[i] : i \in 1..Len(s)}

\* Python slice s[lo:hi] with 0-based, already clamped positions.
Slice(s, lo, hi) == IF hi <= lo THEN <<>> ELSE SubSeq(s, lo + 1, Min2(hi, Len(s)))

None == "None"

(***************************************************************************)
(* services/chunker.py                                                     *)
(***************************************************************************)
NL == "\n"

SP == " "

IsSpace(c) == c \in {SP, NL}

RECURSIVE LStrip(_)
LStrip(s) == IF s # <<>> /\ IsSpace(Head(s)) THEN LStrip(Tail(s)) ELSE s

RECURSIVE RStrip(_)
RStrip(s) ==
  IF s # <<>> /\ IsSpace(s[Len(s)]) THEN RStrip(SubSeq(s, 1, Len(s) - 1)) ELSE s

\* str.strip()
Strip(s) == RStrip(LStrip(s))

\* Length of the run of newlines that starts s.
RECURSIVE NLRun(_)
NLRun(s) == IF s # <<>> /\ Head(s) = NL THEN 1 + NLRun(Tail(s)) ELSE 0

\* re.sub(r"\n{3,}", "\n\n", text)
RECURSIVE CollapseNewlines(_)
CollapseNewlines(s) ==
  IF s = <<>> THEN <<>>
  ELSE LET r == NLRun(s) IN
       IF r >= 3 THEN <<NL, NL>> \o CollapseNewlines(SubSeq(s, r + 1, Len(s)))
       ELSE <<Head(s)>> \o CollapseNewlines(Tail(s))

\* text.split("\n"): the list of lines.
RECURSIVE SplitLines(_, _)
SplitLines(s, cur) ==
  IF s = <<>> THEN <<cur>>
  ELSE IF Head(s) = NL THEN <<cur>> \o SplitLines(Tail(s), <<>>)
  ELSE SplitLines(Tail(s), Append(cur, Head(s)))

\* "\n".join(parts)
RECURSIVE JoinLines(_)
JoinLines(parts) ==
  IF parts = <<>> THEN <<>>
  ELSE IF Len(parts) = 1 THEN parts[1]
  ELSE parts[1] \o <<NL>> \o JoinLines(Tail(parts))

StripEach(parts) == [i \in 1..Len(parts) |-> Strip(parts[i])]

\* Chunker._clean_text
CleanText(text) == Strip(JoinLines(StripEach(SplitLines(CollapseNewlines(text), <<>>))))

separator == <<NL, NL>>

\* text.split(self.separator) for the two-character separator.
RECURSIVE SplitSeparator(_, _)
SplitSeparator(s, cur) ==
  IF s = <<>> THEN <<cur>>
  ELSE IF Len(s) >= 2 /\ SubSeq(s, 1, 2) = separator
       THEN <<cur>> \o SplitSeparator(SubSeq(s, 3, Len(s)), <<>>)
  ELSE SplitSeparator(Tail(s), Append(cur, Head(s)))

\* A chunk that is always numbered 0.
MkChunkUnnumbered(i, t, s, e) == [index |-> 0, text |-> t, start_pos |-> s, end_pos |-> e]

MkChunk(i, t, s, e) == [index |-> i, text |-> t, start_pos |-> s, end_pos |-> e]

\* A new buffer that takes nothing from the emitted one.
NoOverlapTail(current_chunk, overlap_start) == <<>>

\* current_chunk[overlap_start:], the seed of the next buffer.
OverlapTail(current_chunk, overlap_start) ==
  Slice(current_chunk, overlap_start, Len(current_chunk))

\* Chunker._chunk_by_separator: the loop over the parts, then the last buffer.
RECURSIVE PackParts(_, _, _, _, _, _, _)
PackParts(parts, k, current_chunk, current_start, chunk_index, size, overlap) ==
  IF k > Len(parts)
  THEN IF Strip(current_chunk) # <<>>
       THEN <<MkChunk(chunk_index, Strip(current_chunk), current_start,
                      current_start + Len(current_chunk))>>
       ELSE <<>>
  ELSE LET part == Strip(parts[k]) IN
       IF part = <<>>
       THEN PackParts(parts, k + 1, current_chunk, current_start, chunk_index, size, overlap)
       ELSE IF Len(current_chunk) + Len(part) > size /\ current_chunk # <<>>
            THEN LET overlap_start == Max2(0, Len(current_chunk) - overlap)
                     rest == OverlapTail(current_chunk, overlap_start)
                 IN <<MkChunk(chunk_index, Strip(current_chunk), current_start,
                              current_start + Len(current_chunk))>>
                    \o PackParts(parts, k + 1, rest \o part \o separator,
                                 current_start + overlap_start, chunk_index + 1,
                                 size, overlap)
            ELSE PackParts(parts, k + 1, current_chunk \o part \o separator,
                           current_start, chunk_index, size, overlap)

\* A chunker that finds no paragraphs to pack.
SeparatorIgnored(text, size, overlap) == <<>>

ChunkBySeparator(text, size, overlap) ==
  PackParts(SplitSeparator(text, <<>>), 1, <<>>, 0, 0, size, overlap)

\* The three full-width marks are written by their code points.
SentenceEnds == {"U+3002", "U+FF01", "U+FF1F", ".", "!", "?", NL}

LookBack == 100

\* The backward scan of _chunk_by_characters: for i in range(end, stop, -1).
RECURSIVE CutPoint(_, _, _, _)
CutPoint(text, i, stop, end) ==
  IF i <= stop THEN end
  ELSE IF text[i + 1] \in SentenceEnds THEN i + 1
  ELSE CutPoint(text, i - 1, stop, end)

\* Chunker._chunk_by_characters: the while loop from position start.
RECURSIVE CharLoop(_, _, _, _, _)
CharLoop(text, start, chunk_index, size, overlap) ==
  IF ~(start < Len(text)) THEN <<>>
  ELSE LET end0 == start + size
           end == IF end0 < Len(text)
                  THEN CutPoint(text, end0, Max2(start + (size \div 2), end0 - LookBack), end0)
                  ELSE end0
       IN <<MkChunk(chunk_index, Strip(Slice(text, start, end)), start, end)>>
          \o CharLoop(text, end - overlap, chunk_index + 1, size, overlap)

\* A fallback that stops after its first chunk.
FirstChunkOnly(text, size, overlap) == <<MkChunk(0, Strip(Slice(text, 0, size)), 0, size)>>

ChunkByCharacters(text, size, overlap) == CharLoop(text, 0, 0, size, overlap)

\* A chunker that takes the short path on the length of the raw text and
\* returns it as it came.
ChunkUncleaned(raw, size, overlap) ==
  IF raw = <<>> \/ Strip(raw) = <<>> THEN <<>>
  ELSE IF Len(raw) <= size THEN <<MkChunk(0, raw, 0, Len(raw))>>
  ELSE ChunkByCharacters(CleanText(raw), size, overlap)

\* Chunker.chunk
Chunk(raw, size, overlap) ==
  IF raw = <<>> \/ Strip(raw) = <<>> THEN <<>>
  ELSE LET text == CleanText(raw) IN
       IF Len(text) <= size THEN <<MkChunk(0, text, 0, Len(text))>>
       ELSE LET chunks == ChunkBySeparator(text, size, overlap) IN
            IF chunks = <<>> \/ Len(chunks) = 1
            THEN ChunkByCharacters(text, size, overlap)
            ELSE chunks

(***************************************************************************)
(* services/embedding.py                                                   *)
(*                                                                         *)
(* A vector is a direction and a length.  The direction of an encoded text *)
(* is the text itself, so equal texts give equal vectors; the sentence     *)
(* model does not return unit vectors.  CosDir gives the cosine of two     *)
(* directions in hundredths.                                               *)
(***************************************************************************)
IsBlank(text) == text = <<>> \/ Strip(text) = <<>>

ZeroVector == [dir |-> <<>>, norm |-> 0]

\* self.model.encode(text)
Encode(text) == [dir |-> text, norm |-> 2]

\* SentenceTransformerEmbedding.embed
Embed(text) == IF IsBlank(text) THEN ZeroVector ELSE Encode(text)

RECURSIVE ValidTexts(_)
ValidTexts(texts) ==
  IF texts = <<>> THEN <<>>
  ELSE IF ~IsBlank(Head(texts)) THEN <<Head(texts)>> \o ValidTexts(Tail(texts))
  ELSE ValidTexts(Tail(texts))

\* An embed_batch that gives an empty list a zero vector.
EmbedBatchPadded(texts) ==
  IF texts = <<>> THEN <<ZeroVector>> ELSE [i \in 1..Len(texts) |-> Embed(texts[i])]

\* SentenceTransformerEmbedding.embed_batch
EmbedBatch(texts) ==
  IF texts = <<>> THEN <<>>
  ELSE LET valid_texts == ValidTexts(texts) IN
       IF valid_texts = <<>> THEN [i \in 1..Len(texts) |-> ZeroVector]
       ELSE [i \in 1..Len(valid_texts) |-> Encode(valid_texts[i])]

\* Questions put to the retriever, as texts.
Q29 == <<"q", "2", "9">>

Q30 == <<"q", "3", "0">>

Q31 == <<"q", "3", "1">>

LowSim == 10

\* The cosine of two directions: 1.00 for the same text; the three probe
\* questions lie at 0.29, 0.30 and 0.31 from the text "a".
CosDir(a, b) ==
  IF a = b THEN 100
  ELSE IF {a, b} = {Q29, <<"a">>} THEN 29
  ELSE IF {a, b} = {Q30, <<"a">>} THEN 30
  ELSE IF {a, b} = {Q31, <<"a">>} THEN 31
  ELSE LowSim

(***************************************************************************)
(* services/vector_store.py                                                *)
(*                                                                         *)
(* An instance holds the index (has_index is FALSE while self.index is     *)
(* None; index lists the vectors of the IndexFlatIP by position) and       *)
(* documents (the metadata list).  The directory holds the two files       *)
(* index.faiss and documents.pkl.                                          *)
(***************************************************************************)
\* faiss.normalize_L2: a zero vector stays zero.
NormalizeL2(v) == IF v.norm = 0 THEN v ELSE [v EXCEPT !.norm = 1]

\* The inner product IndexFlatIP computes.
InnerProduct(u, v) == CosDir(u.dir, v.dir) * u.norm * v.norm

EmptyStore == [has_index |-> FALSE, index |-> <<>>, documents |-> <<>>]

MissingFile == [kind |-> "missing", data |-> <<>>]

ZeroByteFile == [kind |-> "zero", data |-> <<>>]

GarbageFile == [kind |-> "garbage", data |-> <<>>]

DataFile(x) == [kind |-> "data", data |-> x]

\* FAISSVectorStore._init_index
InitIndex == EmptyStore

\* A load that trusts the index file when only the metadata file is bad.
LoadPartial(d) ==
  IF d.index_file.kind = "data"
  THEN [has_index |-> TRUE, index |-> d.index_file.data,
        documents |-> IF d.docs_file.kind = "data" THEN d.docs_file.data ELSE <<>>]
  ELSE InitIndex

\* FAISSVectorStore._load_index: the instance state after loading d.
LoadIndex(d) ==
  IF d.index_file.kind # "missing" /\ d.docs_file.kind # "missing"
  THEN IF d.index_file.kind = "zero" \/ d.docs_file.kind = "zero"
       THEN InitIndex
       ELSE IF d.index_file.kind = "garbage" \/ d.docs_file.kind = "garbage"
            THEN InitIndex
            ELSE [has_index |-> TRUE, index |-> d.index_file.data,
                  documents |-> d.docs_file.data]
  ELSE InitIndex

SaveOutcomes == {"ok", "index_unwritten", "docs_unwritten", "docs_truncated"}

\* FAISSVectorStore._save_index: the directory after saving instance s.  The
\* outcome says where a write raised; the exception is logged and swallowed.
SaveIndex(s, d, outcome) ==
  IF ~s.has_index THEN d
  ELSE IF outcome = "index_unwritten" THEN d
  ELSE IF outcome = "docs_unwritten"
       THEN [d EXCEPT !.index_file = DataFile(s.index)]
  ELSE IF outcome = "docs_truncated"
       THEN [index_file |-> DataFile(s.index), docs_file |-> ZeroByteFile]
  ELSE [index_file |-> DataFile(s.index), docs_file |-> DataFile(s.documents)]

\* FAISSVectorStore.add_documents up to the save: the instance afterwards.
AddToStore(s, documents, embeddings) ==
  IF documents = <<>> \/ embeddings = <<>> THEN s
  ELSE LET index0 == IF ~s.has_index THEN <<>> ELSE s.index
           start_id == Len(s.documents)
       IN [has_index |-> TRUE,
           index |-> index0 \o [i \in 1..Len(embeddings) |-> NormalizeL2(embeddings[i])],
           documents |-> s.documents \o
              [i \in 1..Len(documents) |->
                 [id |-> start_id + (i - 1),
                  document_id |-> documents[i].document_id,
                  chunk_index |-> documents[i].chunk_index,
                  chunk_text |-> documents[i].chunk_text]]]

\* list comprehension of delete_by_document_id
RECURSIVE NewDocuments(_, _)
NewDocuments(documents, document_id) ==
  IF documents = <<>> THEN <<>>
  ELSE IF Head(documents).document_id # document_id
       THEN <<Head(documents)>> \o NewDocuments(Tail(documents), document_id)
  ELSE NewDocuments(Tail(documents), document_id)

\* FAISSVectorStore.add_documents: the instance and the directory afterwards.
\* The call returns without saving when either list is empty.
AddDocuments(s, d, documents, embeddings, save_outcome) ==
  IF documents = <<>> \/ embeddings = <<>> THEN [store |-> s, disk |-> d]
  ELSE LET after == AddToStore(s, documents, embeddings) IN
       [store |-> after, disk |-> SaveIndex(after, d, save_outcome)]

\* FAISSVectorStore.delete_by_document_id: the instance and the directory
\* afterwards.  new_documents is only compared in length; the index is then
\* re-initialised and saved.
DeleteByDocumentId(s, d, document_id) ==
  IF Len(NewDocuments(s.documents, document_id)) = Len(s.documents)
  THEN [store |-> s, disk |-> d]
  ELSE [store |-> InitIndex, disk |-> SaveIndex(InitIndex, d, "ok")]

\* FAISSVectorStore.clear
Clear(s, d) == [store |-> InitIndex, disk |-> SaveIndex(InitIndex, d, "ok")]

\* The metadata an entry is known by.
EntryKey(doc) == [document_id |-> doc.document_id, chunk_index |-> doc.chunk_index,
                  chunk_text |-> doc.chunk_text]

\* The 0-based position with the largest inner product among the positions
\* in left; the lower position wins a tie.
BestPosition(index, q, left) ==
  CHOOSE p \in left :
    \A r \in left :
      \/ InnerProduct(q, index[p + 1]) > InnerProduct(q, index[r + 1])
      \/ InnerProduct(q, index[p + 1]) = InnerProduct(q, index[r + 1]) /\ p <= r

\* self.index.search(query_array, top_k): the positions in descending
\* similarity (the -1 padding of a short answer is left out).
RECURSIVE TopPositions(_, _, _, _)
TopPositions(index, q, left, k) ==
  IF k = 0 \/ left = {} THEN <<>>
  ELSE LET p == BestPosition(index, q, left) IN
       <<p>> \o TopPositions(index, q, left \ {p}, k - 1)

\* The result loop of FAISSVectorStore.search.
RECURSIVE AssembleResults(_, _, _)
AssembleResults(s, q, positions) ==
  IF positions = <<>> THEN <<>>
  ELSE LET idx == Head(positions) IN
       IF idx >= Len(s.documents) THEN AssembleResults(s, q, Tail(positions))
       ELSE LET doc == s.documents[idx + 1] IN
            <<[chunk_id |-> doc.id,
               document_id |-> doc.document_id,
               chunk_index |-> doc.chunk_index,
               chunk_text |-> doc.chunk_text,
               similarity |-> InnerProduct(q, s.index[idx + 1])]>>
            \o AssembleResults(s, q, Tail(positions))

\* A search that returns every entry in index order, neither ranked nor
\* cut at top_k.
SearchUnranked(s, query_embedding, top_k) ==
  IF ~s.has_index \/ Len(s.index) = 0 THEN <<>>
  ELSE LET q == NormalizeL2(query_embedding)
           n == Len(s.index)
       IN AssembleResults(s, q, [i \in 1..n |-> i - 1])

\* FAISSVectorStore.search on the freshly loaded instance s.
SearchLoaded(s, query_embedding, top_k) ==
  IF ~s.has_index \/ Len(s.index) = 0 THEN <<>>
  ELSE LET q == NormalizeL2(query_embedding) IN
       AssembleResults(s, q, TopPositions(s.index, q, 0..(Len(s.index) - 1), top_k))

(***************************************************************************)
(* services/retriever.py and services/qa_service.py                        *)
(***************************************************************************)
\* Document.file_name of document d.
FileName(d) == <<"f", d>>

RECURSIVE KeepExisting(_, _)
KeepExisting(results, rows) ==
  IF results = <<>> THEN <<>>
  ELSE LET r == Head(results) IN
       IF rows[r.document_id].status # "none"
       THEN <<[chunk_id |-> r.chunk_id,
               document_id |-> r.document_id,
               file_name |-> FileName(r.document_id),
               chunk_index |-> r.chunk_index,
               chunk_text |-> r.chunk_text,
               similarity |-> r.similarity]>> \o KeepExisting(Tail(results), rows)
       ELSE KeepExisting(Tail(results), rows)

\* A retrieval that never looks the owning documents up: every search
\* result is kept.
RetrieveUnchecked(s, question, top_k, rows) ==
  KeepExisting(SearchLoaded(s, Embed(question), top_k),
               [d \in DOMAIN rows |-> [rows[d] EXCEPT !.status = "completed"]])

\* Retriever.retrieve with a database session, on the freshly loaded store s.
Retrieve(s, question, top_k, rows) ==
  KeepExisting(SearchLoaded(s, Embed(question), top_k), rows)

\* The parameters Retriever.retrieve declares besides self.
RetrieveParams == {"question", "top_k", "db"}

\* The keyword arguments QAService.ask passes to self.retriever.retrieve.
AskKeywords == {"question", "top_k", "knowledge_base_id", "db"}

\* Python raises TypeError for a keyword argument the callee does not declare.
CallRaisesTypeError(keywords, params) == keywords \ params # {}

similarity_threshold == 30

RECURSIVE MaxSimilarity(_)
MaxSimilarity(chunks) ==
  IF Len(chunks) = 1 THEN chunks[1].similarity
  ELSE Max2(chunks[1].similarity, MaxSimilarity(Tail(chunks)))

\* The routing decision of QAService.ask on the retrieved chunks.
UseKnowledgeBase(retrieved_chunks) ==
  IF retrieved_chunks # <<>>
  THEN MaxSimilarity(retrieved_chunks) >= similarity_threshold
  ELSE FALSE

\* The passage texts the prompt carries: PromptBuilder.build gets the text
\* of every retrieved chunk, PromptBuilder.build_without_context gets none.
PromptContext(use_knowledge_base, retrieved_chunks) ==
  IF use_knowledge_base
  THEN [i \in 1..Len(retrieved_chunks) |-> retrieved_chunks[i].chunk_text]
  ELSE <<>>

\* QAService._build_sources
RECURSIVE BuildSources(_, _)
BuildSources(retrieved_chunks, seen_document_ids) ==
  IF retrieved_chunks = <<>> THEN <<>>
  ELSE LET c == Head(retrieved_chunks) IN
       IF c.document_id \in seen_document_ids
       THEN BuildSources(Tail(retrieved_chunks), seen_document_ids)
       ELSE <<[document_id |-> c.document_id,
               file_name |-> c.file_name,
               chunk_index |-> c.chunk_index,
               similarity |-> c.similarity]>>
            \o BuildSources(Tail(retrieved_chunks), seen_document_ids \cup {c.document_id})

(***************************************************************************)
(* The state.                                                              *)
(***************************************************************************)
VARIABLES
  docs,          \* committed Document rows: status, chunk_count, error_message
  chunk_rows,    \* committed Chunk rows
  next_id,       \* the next auto-increment Document.id
  files,         \* the file handed over with each document
  task,          \* where the ingestion of each document stands
  vector_store,  \* the two FAISSVectorStore instances: "kb" and "qa"
  disk,          \* index.faiss and documents.pkl under the index path
  qa_logs,       \* the QALog rows, in insertion order
  response,      \* what the last QAService.ask call gave its caller
  runs,          \* per document: what its ingestion run did
  deleted_ids,   \* document ids for which delete_by_document_id has returned
  kept,          \* entries of other documents seen by a delete_by_document_id call
  added,         \* entries for which add_documents has returned, not deleted since
  loop,          \* the event loop: the callback it is running, each handler's position
  chunker_text,  \* the text handed to Chunker.chunk
  chunker_chunks, \* what Chunker.chunk returned for it
  char_loop,     \* the while loop of Chunker._chunk_by_characters, iteration by iteration
  chunker_config, \* chunk_size and chunk_overlap of the Chunker under test
  embed_texts,   \* the list handed to embed_batch
  embed_vectors, \* what embed_batch returned for it
  llm_calls,     \* the DeepSeekLLM.chat calls: the outcome of each HTTP attempt
  steps          \* upload_document and the ingestion task, statement by statement

\* The variables only the step-by-step and the single-function
\* specifications change.
chunker_vars == <<chunker_config, chunker_text, chunker_chunks, char_loop>>

embedding_vars == <<embed_texts, embed_vectors>>

\* The state of the services when they are driven on their own.
unit_vars == <<chunker_vars, embedding_vars, llm_calls>>

aux_vars == <<loop, steps, unit_vars>>

vars == <<docs, chunk_rows, next_id, files, task, vector_store, disk,
          qa_logs, response, runs, deleted_ids, kept, added, aux_vars>>

DocIds == 1..MaxDocs

Stores == {"kb", "qa"}

NoRow == [status |-> "none", chunk_count |-> 0, error_message |-> None]

NoFile == [supported |-> FALSE, readable |-> FALSE, text |-> <<>>]

NoRun == [result |-> "none", stage |-> "none", chunks |-> <<>>, vectors_added |-> 0,
          records_added |-> <<>>]

NoResponse == [status |-> "none", answer_source |-> None, sources |-> <<>>,
               retrieved |-> <<>>, context_chunks |-> <<>>, disclaimer |-> FALSE,
               error |-> None]

\* Chunker(chunk_size, chunk_overlap) of the knowledge builder, scaled down.
chunk_size == 4

chunk_overlap == 1

TextOne == <<"a">>

TextTwo == <<"a", "b", NL, NL, "c", "d">>

\* Whitespace-only lines between two words: the cleaned text keeps a long
\* run of newlines.
TextGap == <<"a", NL, SP, NL, SP, NL, SP, NL, SP, NL, SP, NL, SP, NL, SP, NL, "b">>

TextSpace == <<SP>>

\* embed_batch has not been called.
IdleEmbedding == embed_texts = <<>> /\ embed_vectors = <<>>

\* DeepSeekLLM.chat has not been called.
IdleLLM == llm_calls = <<>>

\* _chunk_by_characters has not been called.
IdleCharLoop == [pc |-> "idle", start |-> 0, chunk_index |-> 0]

\* Chunker(chunk_size, chunk_overlap) as the knowledge builder makes it.
DefaultConfig == [chunk_size |-> chunk_size, chunk_overlap |-> chunk_overlap]

\* The chunker has not been called.
IdleChunker ==
  /\ chunker_text = <<>>
  /\ chunker_chunks = <<>>
  /\ chunker_config = DefaultConfig
  /\ char_loop = IdleCharLoop

FileTexts == {TextOne, TextTwo, TextGap, TextSpace, <<>>}

\* What upload_document accepts: a supported extension; the parser may fail.
UploadFiles ==
  {[supported |-> TRUE, readable |-> TRUE, text |-> t] : t \in FileTexts}
  \cup {[supported |-> TRUE, readable |-> FALSE, text |-> <<>>]}

Questions == {<<"a">>, Q29, Q30, Q31}

TOP_K == 5

\* The handlers the event loop runs: the add_documents call of the ingestion
\* of a document, and a delete request for a document.
Handlers == {<<kind, d>> : kind \in {"add", "delete"}, d \in DocIds}

NoHandler == <<"none", 0>>

\* No callback is running; no handler has started.
IdleLoop == [running |-> NoHandler,
             pc |-> [h \in Handlers |-> "ready"],
             texts |-> [h \in Handlers |-> <<>>],
             serial |-> [store |-> EmptyStore,
                         disk |-> [index_file |-> MissingFile, docs_file |-> MissingFile]]]

\* No ingestion outcome yet.
NoOut == [result |-> "none", row |-> NoRow, rows |-> {}, kb |-> EmptyStore,
          disk |-> [index_file |-> MissingFile, docs_file |-> MissingFile], run |-> NoRun]

\* A document for which upload_document has not been called: where the
\* handler and the ingestion task stand, the outcome the task is heading
\* for, the statuses the session has set, the chunks, the chunk rows
\* flushed, the arguments of the embed_batch and add_documents calls, and
\* whether the HTTP response has gone out (and what a reader of the
\* documents table saw then).
NoStep == [handler |-> "none", pc |-> "none", out |-> NoOut, status |-> <<>>,
           chunks |-> <<>>, flushed |-> <<>>, embed_calls |-> <<>>, add_calls |-> <<>>,
           sent |-> "no"]

\* running is the document whose handler or task holds the event loop.
IdleSteps == [running |-> 0, doc |-> [d \in DocIds |-> NoStep]]

Init ==
  /\ docs = [d \in DocIds |-> NoRow]
  /\ chunk_rows = {}
  /\ next_id = 1
  /\ files = [d \in DocIds |-> NoFile]
  /\ task = [d \in DocIds |-> "none"]
  /\ vector_store = [s \in Stores |-> EmptyStore]
  /\ disk = [index_file |-> MissingFile, docs_file |-> MissingFile]
  /\ qa_logs = <<>>
  /\ response = NoResponse
  /\ runs = [d \in DocIds |-> NoRun]
  /\ deleted_ids = {}
  /\ kept = {}
  /\ added = {}
  /\ loop = IdleLoop
  /\ steps = IdleSteps
  /\ chunker_text = <<>>
  /\ chunker_chunks = <<>>
  /\ char_loop = IdleCharLoop
  /\ chunker_config = DefaultConfig
  /\ IdleEmbedding
  /\ IdleLLM

(***************************************************************************)
(* api/routes/document.py: upload_document                                 *)
(***************************************************************************)
\* The row is committed with status pending and the ingestion task is
\* created; the task runs later (asyncio.create_task).
Upload(file, max_docs) ==
  /\ next_id <= max_docs
  /\ docs' = [docs EXCEPT ![next_id] =
                [status |-> "pending", chunk_count |-> 0, error_message |-> None]]
  /\ files' = [files EXCEPT ![next_id] = file]
  /\ task' = [task EXCEPT ![next_id] = "scheduled"]
  /\ next_id' = next_id + 1
  /\ UNCHANGED <<aux_vars, chunk_rows, vector_store, disk, qa_logs, response, runs,
                 deleted_ids, kept, added>>

upload_document(upload_files, max_docs) ==
  \E file \in upload_files : Upload(file, max_docs)

(***************************************************************************)
(* services/knowledge_builder.py                                           *)
(***************************************************************************)
\* Where an exception can come from outside the code: the database at the
\* first status update, at the flush of a chunk row or at the final commit,
\* the embedding model, and faiss in add_documents.
IngestFaults == {"none", "db_begin", "db_flush", "embed", "add", "commit"}

ErrorMessage(stage) ==
  CASE stage = "unsupported" -> "unsupported file type"
    [] stage = "parse" -> "parse failed"
    [] stage = "empty" -> "empty content"
    [] stage = "embed" -> "embedding model unavailable"
    [] stage = "no_embeddings" -> "list index out of range"
    [] stage = "add" -> "faiss error"
    [] stage \in {"db_begin", "db_commit"} -> "database error"
    [] OTHER -> None

\* The chunk rows and records in reverse chunk order.
ChunkDocumentsReversed(d, chunks) ==
  [i \in 1..Len(chunks) |-> [document_id |-> d,
                             chunk_index |-> chunks[Len(chunks) + 1 - i].index,
                             chunk_text |-> chunks[Len(chunks) + 1 - i].text]]

\* chunk_documents of the ingestion loop.
ChunkDocuments(d, chunks) ==
  [i \in 1..Len(chunks) |-> [document_id |-> d,
                             chunk_index |-> chunks[i].index,
                             chunk_text |-> chunks[i].text]]

\* chunk_embeddings of the ingestion loop: the chunk texts.
ChunkTexts(chunk_documents) ==
  [i \in 1..Len(chunk_documents) |-> chunk_documents[i].chunk_text]

\* How far the try block of an ingestion gets: "ok", or the step that
\* raises.  A chunk row of a document without a Document row violates the
\* foreign key when it is flushed.
StageOf(has_row, file, n, embeddings, fault) ==
  IF fault = "db_begin" THEN "db_begin"
  ELSE IF ~file.supported THEN "unsupported"
  ELSE IF ~file.readable THEN "parse"
  ELSE IF file.text = <<>> THEN "empty"
  ELSE IF n > 0 /\ (fault = "db_flush" \/ ~has_row) THEN "db_flush"
  ELSE IF fault = "embed" THEN "embed"
  ELSE IF embeddings = <<>> THEN "no_embeddings"
  ELSE IF fault = "add" THEN "add"
  ELSE IF fault = "commit" THEN "db_commit"
  ELSE "ok"

\* The stages whose exception leaves the session usable: the except block
\* records status failed and commits.
FailedStages == {"unsupported", "parse", "empty", "embed", "no_embeddings", "add"}

\* The stages that are reached only after the chunk rows were flushed.
ChunkedStages == {"db_flush", "embed", "no_embeddings", "add", "db_commit", "ok"}

\* The stages in which add_documents has returned.
AddedStages == {"db_commit", "ok"}

\* What the coroutine gives its caller.  The except block does not roll the
\* session back: after a failed flush its status update raises again; after
\* a failed query or commit it goes through only if the session is usable.
ResultOf(stage, session_usable) ==
  IF stage = "ok" THEN "true"
  ELSE IF stage \in FailedStages THEN "false"
  ELSE IF stage \in {"db_begin", "db_commit"} /\ session_usable THEN "false"
  ELSE "raised"

\* The Document row the ingestion leaves committed.
RowAfter(row, stage, result, n) ==
  IF row.status = "none" THEN row
  ELSE IF result = "true" THEN [row EXCEPT !.status = "completed", !.chunk_count = n]
  ELSE IF result = "false"
       THEN [row EXCEPT !.status = "failed", !.error_message = ErrorMessage(stage)]
  ELSE row

\* The outcome of an ingestion of document d that ended in stage; add is
\* what add_documents does with the chunks when it is reached.  The chunk
\* rows flushed before a database exception are rolled back with it.
Finish(d, stage, result, chunk_documents, kb, add) ==
  [result |-> result,
   row |-> RowAfter(docs[d], stage, result, Len(chunk_documents)),
   rows |-> IF stage \in {"embed", "no_embeddings", "add", "ok"}
            THEN Range(chunk_documents) ELSE {},
   kb |-> IF stage \in AddedStages THEN add.store ELSE kb,
   disk |-> IF stage \in AddedStages THEN add.disk ELSE disk,
   run |-> [result |-> result,
            stage |-> stage,
            chunks |-> IF stage \in ChunkedStages
                       THEN ChunkTexts(chunk_documents) ELSE <<>>,
            vectors_added |-> IF stage \in AddedStages
                              THEN Len(add.store.index) - Len(kb.index) ELSE 0,
            records_added |-> IF stage \in AddedStages
                              THEN SubSeq(add.store.documents, Len(kb.documents) + 1,
                                          Len(add.store.documents))
                              ELSE <<>>]]

RunStaged(d, stage, session_usable, save_outcome, chunk_documents, embeddings) ==
  Finish(d, stage, ResultOf(stage, session_usable), chunk_documents,
         vector_store["kb"],
         AddDocuments(vector_store["kb"], disk, chunk_documents, embeddings, save_outcome))

RunEmbedded(d, file, fault, session_usable, save_outcome, chunk_documents, embeddings) ==
  RunStaged(d,
            StageOf(docs[d].status # "none", file, Len(chunk_documents), embeddings, fault),
            session_usable, save_outcome, chunk_documents, embeddings)

RunChunked(d, file, fault, session_usable, save_outcome, chunk_documents) ==
  RunEmbedded(d, file, fault, session_usable, save_outcome, chunk_documents,
              EmbedBatch(ChunkTexts(chunk_documents)))

\* The body of build_knowledge_from_content for document d: the try block up
\* to the first exception, then the except block.
RunIngestion(d, file, fault, session_usable, save_outcome) ==
  RunChunked(d, file, fault, session_usable, save_outcome,
             ChunkDocuments(d, Chunk(file.text, chunk_size, chunk_overlap)))

\* What the run leaves behind when it ends with outcome out.
IngestEffects(d, out) ==
  /\ docs' = [docs EXCEPT ![d] = out.row]
  /\ chunk_rows' = chunk_rows \cup out.rows
  /\ vector_store' = [vector_store EXCEPT !["kb"] = out.kb]
  /\ disk' = out.disk
  /\ runs' = [runs EXCEPT ![d] = out.run]
  /\ task' = [task EXCEPT ![d] = out.result]
  /\ added' = added \cup {EntryKey(r) : r \in Range(out.run.records_added)}
  /\ UNCHANGED <<next_id, files, qa_logs, response, deleted_ids, kept>>

Ingest(d, out) == IngestEffects(d, out) /\ UNCHANGED aux_vars

\* KnowledgeBuilder.build_knowledge_from_content: the task upload_document
\* created.  The coroutine has no await, so it runs as one step.  A save
\* outcome is drawn only where the save is reached, and the state of the
\* session only where the database raised outside a flush.
build_knowledge_from_content(faults, save_outcomes) ==
  \E d \in DocIds, fault \in faults, save_outcome \in save_outcomes,
     session_usable \in BOOLEAN :
    /\ task[d] = "scheduled"
    /\ fault \in {"none", "commit"} \/ save_outcome = "ok"
    /\ fault \in {"db_begin", "commit"} \/ ~session_usable
    /\ Ingest(d, RunIngestion(d, files[d], fault, session_usable, save_outcome))

(***************************************************************************)
(* upload_document and build_knowledge_from_content, statement by          *)
(* statement.  Neither has an await between the statements modelled here,  *)
(* so whichever holds the event loop keeps it until it returns.            *)
(***************************************************************************)
Step(d) == steps.doc[d]

\* Document d moves on to rec and the event loop is held by running; nothing
\* outside the handler or the task changes.
StepOnly(d, rec, running) ==
  /\ steps' = [steps EXCEPT !.running = running, !.doc[d] = rec]
  /\ UNCHANGED <<loop, unit_vars, docs, chunk_rows, next_id, files, task, vector_store,
                 disk, qa_logs, response, runs, deleted_ids, kept, added>>

\* db.add(document); db.commit(); db.refresh(document): the row is committed
\* with status pending.
commit_document(upload_files, max_docs) ==
  \E file \in upload_files :
    /\ steps.running = 0
    /\ next_id <= max_docs
    /\ docs' = [docs EXCEPT ![next_id] =
                  [status |-> "pending", chunk_count |-> 0, error_message |-> None]]
    /\ files' = [files EXCEPT ![next_id] = file]
    /\ next_id' = next_id + 1
    /\ steps' = [steps EXCEPT !.running = next_id, !.doc[next_id].handler = "committed"]
    /\ UNCHANGED <<loop, unit_vars, chunk_rows, task, vector_store, disk, qa_logs,
                   response, runs, deleted_ids, kept, added>>

\* asyncio.create_task(kb.build_knowledge_from_content(...)): the task is
\* scheduled; it starts when the event loop is free.
create_task ==
  \E d \in DocIds :
    /\ steps.running = d
    /\ Step(d).handler = "committed"
    /\ task' = [task EXCEPT ![d] = "scheduled"]
    /\ steps' = [steps EXCEPT !.doc[d].handler = "task_created", !.doc[d].pc = "scheduled"]
    /\ UNCHANGED <<loop, unit_vars, docs, chunk_rows, next_id, files, vector_store, disk,
                   qa_logs, response, runs, deleted_ids, kept, added>>

\* return format_document_response(document): the handler hands its
\* response to the framework and gives up the event loop.
return_response ==
  \E d \in DocIds :
    /\ steps.running = d
    /\ Step(d).handler = "task_created"
    /\ StepOnly(d, [Step(d) EXCEPT !.handler = "returned"], 0)

\* The response of the upload of d waits for the ingestion task.
ResponseAfterIngestion(d) ==
  steps.running = 0 /\ Step(d).handler = "returned" /\ Step(d).sent = "no"
  /\ Step(d).pc = "done"

\* The framework can send the response of the upload of d: the handler has
\* returned it and the event loop is free.
ResponseReady(d) ==
  steps.running = 0 /\ Step(d).handler = "returned" /\ Step(d).sent = "no"

\* The response goes out; sent records the status a reader of the documents
\* table finds at that moment.
Send(d) ==
  /\ ResponseReady(d)
  /\ StepOnly(d, [Step(d) EXCEPT !.sent = docs[d].status], 0)

send_response == \E d \in DocIds : Send(d)

\* Where the run goes after a statement: on, or to the except block when
\* the statement is the one that raises.
After(out, raising, on) == IF out.run.stage \in raising THEN "except" ELSE on

\* The task starts: self._update_document_status(db, document_id,
\* "processing"), which sets the status in the session and flushes.  out is
\* the outcome the run is heading for.
Processing(d, out) ==
  StepOnly(d, [Step(d) EXCEPT !.out = out,
                              !.pc = After(out, {"db_begin"}, "processing"),
                              !.status = IF out.run.stage = "db_begin" THEN <<>>
                                         ELSE <<"processing">>], d)

update_status_processing(faults) ==
  \E d \in DocIds, fault \in faults, session_usable \in BOOLEAN :
    /\ steps.running = 0
    /\ Step(d).pc = "scheduled"
    /\ fault \in {"db_begin", "commit"} \/ ~session_usable
    /\ Processing(d, RunIngestion(d, files[d], fault, session_usable, "ok"))

\* is_supported, parser.parse, the empty-text test and self.chunker.chunk.
parse_and_chunk ==
  \E d \in DocIds :
    /\ steps.running = d
    /\ Step(d).pc = "processing"
    /\ StepOnly(d, [Step(d) EXCEPT
                      !.pc = After(Step(d).out, {"unsupported", "parse", "empty"}, "chunked"),
                      !.chunks = IF Step(d).out.run.stage \in {"unsupported", "parse", "empty"}
                                 THEN <<>>
                                 ELSE Chunk(files[d].text, chunk_size, chunk_overlap)], d)

\* The loop over the chunks: db.add(db_chunk); db.flush() for each.
flush_chunk_rows ==
  \E d \in DocIds :
    /\ steps.running = d
    /\ Step(d).pc = "chunked"
    /\ StepOnly(d, [Step(d) EXCEPT
                      !.pc = After(Step(d).out, {"db_flush"}, "flushed"),
                      !.flushed = IF Step(d).out.run.stage = "db_flush" THEN <<>>
                                  ELSE ChunkDocuments(d, Step(d).chunks)], d)

\* embeddings = self.embedding_service.embed_batch(chunk_embeddings), and
\* the log line that reads embeddings[0].
call_embed_batch ==
  \E d \in DocIds :
    /\ steps.running = d
    /\ Step(d).pc = "flushed"
    /\ StepOnly(d, [Step(d) EXCEPT
                      !.pc = After(Step(d).out, {"embed", "no_embeddings"}, "embedded"),
                      !.embed_calls = Append(Step(d).embed_calls,
                                             ChunkTexts(Step(d).flushed))], d)

\* self.vector_store.add_documents(chunk_documents, embeddings).
call_add_documents ==
  \E d \in DocIds :
    /\ steps.running = d
    /\ Step(d).pc = "embedded"
    /\ steps' = [steps EXCEPT
                   !.doc[d].pc = After(Step(d).out, {"add"}, "added"),
                   !.doc[d].add_calls =
                     Append(Step(d).add_calls,
                            [documents |-> Step(d).flushed,
                             embeddings |-> EmbedBatch(ChunkTexts(Step(d).flushed))])]
    /\ vector_store' = [vector_store EXCEPT !["kb"] = Step(d).out.kb]
    /\ disk' = Step(d).out.disk
    /\ UNCHANGED <<loop, unit_vars, docs, chunk_rows, next_id, files, task, qa_logs,
                   response, runs, deleted_ids, kept, added>>

\* self._update_document_status(db, document_id, "completed", ...);
\* db.commit(); return True.
update_status_completed ==
  \E d \in DocIds :
    /\ steps.running = d
    /\ Step(d).pc = "added"
    /\ IF Step(d).out.run.stage = "db_commit"
       THEN StepOnly(d, [Step(d) EXCEPT !.pc = "except",
                                        !.status = Append(Step(d).status, "completed")], d)
       ELSE /\ steps' = [steps EXCEPT
                           !.running = 0,
                           !.doc[d].pc = "done",
                           !.doc[d].status = Append(Step(d).status, "completed")]
            /\ IngestEffects(d, Step(d).out)
            /\ UNCHANGED <<loop, unit_vars>>

\* The except block: self._update_document_status(db, document_id,
\* "failed", ...); db.commit(); return False.
except_block ==
  \E d \in DocIds :
    /\ steps.running = d
    /\ Step(d).pc = "except"
    /\ steps' = [steps EXCEPT
                   !.running = 0,
                   !.doc[d].pc = "done",
                   !.doc[d].status = IF Step(d).out.result = "false"
                                     THEN Append(Step(d).status, "failed")
                                     ELSE Step(d).status]
    /\ IngestEffects(d, Step(d).out)
    /\ UNCHANGED <<loop, unit_vars>>

\* The bookkeeping of a delete_by_document_id(d) call on instance s: d is
\* recorded as deleted, and the entries of the other documents that s held
\* are recorded as entries the call must keep.
NoteDelete(s, d) ==
  /\ deleted_ids' = deleted_ids \cup {d}
  /\ kept' = {e \in kept \cup {EntryKey(s.documents[i]) : i \in 1..Len(s.documents)} :
               e.document_id # d}
  /\ added' = {e \in added : e.document_id # d}

\* KnowledgeBuilder.delete_document, as document.py calls it after it has
\* found the row and awaited the storage service; another request may have
\* deleted the row in between, and the ingestion task of the document may
\* not have run yet.  A database exception is answered by a rollback.
DeleteDocument(d, db_fault, del) ==
  /\ vector_store' = [vector_store EXCEPT !["kb"] = del.store]
  /\ disk' = del.disk
  /\ NoteDelete(vector_store["kb"], d)
  /\ IF db_fault
     THEN UNCHANGED <<docs, chunk_rows>>
     ELSE /\ chunk_rows' = {r \in chunk_rows : r.document_id # d}
          /\ docs' = [docs EXCEPT ![d] = NoRow]
  /\ UNCHANGED <<aux_vars, next_id, files, task, qa_logs, response, runs>>

delete_document(db_faults) ==
  \E d \in DocIds, db_fault \in db_faults :
    /\ d < next_id
    /\ DeleteDocument(d, db_fault, DeleteByDocumentId(vector_store["kb"], disk, d))

(***************************************************************************)
(* FAISSVectorStore.search on either instance.                             *)
(***************************************************************************)
\* What search(query_embedding, top_k) returns in the current state, on any
\* instance: it loads the two files first.
SearchResults(query_embedding, top_k) ==
  SearchLoaded(LoadIndex(disk), query_embedding, top_k)

\* The effect of a search on the instance: it holds what it loaded.
search ==
  \E s \in Stores :
    /\ vector_store' = [vector_store EXCEPT ![s] = LoadIndex(disk)]
    /\ UNCHANGED <<aux_vars, docs, chunk_rows, next_id, files, task, disk, qa_logs, response,
                   runs, deleted_ids, kept, added>>

(***************************************************************************)
(* QAService.ask                                                           *)
(***************************************************************************)
\* QAService._log_qa: the row of an answered question.
LogQA(logs, question, sources) ==
  Append(logs, [question |-> question, answered |-> TRUE,
                sources |-> sources, error |-> None])

\* A failure path that writes no row.
LogNothing(logs, question, error) == logs

\* QAService._log_qa_error: the row of a failed attempt, without an answer.
LogQAError(logs, question, error) ==
  Append(logs, [question |-> question, answered |-> FALSE,
                sources |-> <<>>, error |-> error])

\* The request is settled in one step: retrieval, routing, the language
\* model call (llm_ok says whether it returns) and the log row.
ask ==
  \E question \in Questions, llm_ok \in BOOLEAN :
    LET type_error == CallRaisesTypeError(AskKeywords, RetrieveParams)
        loaded == LoadIndex(disk)
        retrieved_chunks == Retrieve(loaded, question, TOP_K, docs)
        use_knowledge_base == UseKnowledgeBase(retrieved_chunks)
        sources == IF use_knowledge_base THEN BuildSources(retrieved_chunks, {})
                   ELSE <<>>
        error == IF type_error THEN "TypeError"
                 ELSE IF ~llm_ok THEN "LanguageModelFailure" ELSE None
    IN
    /\ Len(qa_logs) < MaxAsks
    /\ vector_store' = IF type_error THEN vector_store
                       ELSE [vector_store EXCEPT !["qa"] = loaded]
    /\ IF error # None
       THEN /\ response' = [NoResponse EXCEPT !.status = "raised", !.error = error]
            /\ qa_logs' = LogQAError(qa_logs, question, error)
       ELSE /\ response' = [status |-> "returned",
                            answer_source |-> IF use_knowledge_base
                                              THEN "knowledge_base" ELSE "llm",
                            sources |-> sources,
                            retrieved |-> retrieved_chunks,
                            context_chunks |-> PromptContext(use_knowledge_base,
                                                             retrieved_chunks),
                            disclaimer |-> ~use_knowledge_base,
                            error |-> None]
            /\ qa_logs' = LogQA(qa_logs, question, sources)
    /\ UNCHANGED <<aux_vars, docs, chunk_rows, next_id, files, task, disk, runs,
                   deleted_ids, kept, added>>

(***************************************************************************)
(* The vector store driven directly: the knowledge builder's instance      *)
(* writes, both instances search.                                          *)
(***************************************************************************)
\* The chunk texts of one add_documents call; the caller passes one
\* embedding per text.
AddTexts == {<<<<"a">>>>, <<<<"b">>>>, <<<<"a">>, <<"b">>>>}

add_documents(save_outcomes, max_docs) ==
  \E texts \in AddTexts, save_outcome \in save_outcomes :
    LET documents == [i \in 1..Len(texts) |-> [document_id |-> next_id,
                                                 chunk_index |-> i - 1,
                                                 chunk_text |-> texts[i]]]
        add == AddDocuments(vector_store["kb"], disk, documents, EmbedBatch(texts),
                            save_outcome)
    IN
    /\ next_id <= max_docs
    /\ next_id' = next_id + 1
    /\ vector_store' = [vector_store EXCEPT !["kb"] = add.store]
    /\ disk' = add.disk
    /\ added' = added \cup {EntryKey(documents[i]) : i \in 1..Len(documents)}
    /\ UNCHANGED <<aux_vars, docs, chunk_rows, files, task, qa_logs, response, runs,
                   deleted_ids, kept>>

delete_by_document_id ==
  \E d \in DocIds :
    LET del == DeleteByDocumentId(vector_store["kb"], disk, d) IN
    /\ d < next_id
    /\ vector_store' = [vector_store EXCEPT !["kb"] = del.store]
    /\ disk' = del.disk
    /\ NoteDelete(vector_store["kb"], d)
    /\ UNCHANGED <<aux_vars, docs, chunk_rows, next_id, files, task, qa_logs, response, runs>>

clear ==
  LET out == Clear(vector_store["kb"], disk) IN
  /\ vector_store' = [vector_store EXCEPT !["kb"] = out.store]
  /\ disk' = out.disk
  /\ added' = {}
  /\ kept' = {}
  /\ UNCHANGED <<aux_vars, docs, chunk_rows, next_id, files, task, qa_logs, response, runs,
                 deleted_ids>>

NextStore ==
  \/ add_documents({"ok"}, MaxDocs)
  \/ delete_by_document_id
  \/ clear
  \/ search

SpecStore == Init /\ [][NextStore]_vars

\* The same, with the writes of _save_index failing.
NextStoreFaults ==
  \/ add_documents(SaveOutcomes, MaxDocs)
  \/ delete_by_document_id
  \/ clear
  \/ search

SpecStoreFaults == Init /\ [][NextStoreFaults]_vars

(***************************************************************************)
(* The pipeline while the database, the embedding model, faiss and the     *)
(* file system work.                                                       *)
(***************************************************************************)
MaxUploads == 2

Next ==
  \/ upload_document(UploadFiles, MaxUploads)
  \/ build_knowledge_from_content({"none"}, {"ok"})
  \/ delete_document({FALSE})
  \/ search

Spec == Init /\ [][Next]_vars

(***************************************************************************)
(* The pipeline with the exceptions its environment can raise.             *)
(***************************************************************************)
NextFaults ==
  \/ upload_document(UploadFiles, MaxUploads)
  \/ build_knowledge_from_content(IngestFaults, SaveOutcomes)
  \/ delete_document(BOOLEAN)

SpecFaults == Init /\ [][NextFaults]_vars

(***************************************************************************)
(* Questions against an index built without faults.                        *)
(***************************************************************************)
QAFiles == {[supported |-> TRUE, readable |-> TRUE, text |-> t] : t \in {TextOne, TextTwo}}

NextQA ==
  \/ upload_document(QAFiles, MaxUploads)
  \/ build_knowledge_from_content({"none"}, {"ok"})
  \/ delete_document({FALSE})
  \/ ask

SpecQA == Init /\ [][NextQA]_vars

(***************************************************************************)
(* Uploads and ingestions, statement by statement.                         *)
(***************************************************************************)
\* A one-chunk text, a text of several chunks, a text the chunker gives no
\* chunk for, and a file the parser fails on.
StepFiles ==
  {[supported |-> TRUE, readable |-> TRUE, text |-> t] : t \in {TextOne, TextTwo, TextSpace}}
  \cup {[supported |-> TRUE, readable |-> FALSE, text |-> <<>>]}

\* Uploads followed statement by statement.
MaxStepUploads == 1

NextSteps ==
  \/ commit_document(StepFiles, MaxStepUploads)
  \/ create_task
  \/ return_response
  \/ send_response
  \/ update_status_processing(IngestFaults)
  \/ parse_and_chunk
  \/ flush_chunk_rows
  \/ call_embed_batch
  \/ call_add_documents
  \/ update_status_completed
  \/ except_block

SpecSteps == Init /\ [][NextSteps]_vars

(***************************************************************************)
(* The knowledge builder called with any file.                             *)
(***************************************************************************)
\* What a caller of build_knowledge_from_content can pass: the files of the
\* upload route, and a file of a type no parser is registered for.
IngestFiles ==
  UploadFiles \cup {[supported |-> FALSE, readable |-> TRUE, text |-> TextOne]}

\* A Document row with status pending and a build_knowledge_from_content
\* call for it.
schedule_ingestion(ingest_files, max_docs) ==
  \E file \in ingest_files : Upload(file, max_docs)

NextIngest ==
  \/ schedule_ingestion(IngestFiles, MaxUploads)
  \/ build_knowledge_from_content({"none", "embed", "add"}, {"ok"})

SpecIngest == Init /\ [][NextIngest]_vars

(***************************************************************************)
(* What a search can see.                                                  *)
(***************************************************************************)
\* The entries of instance s: the metadata records that have a vector at
\* their position, which is what the result loop of search can return.
IndexEntries(s) ==
  {EntryKey(s.documents[p]) : p \in 1..Min2(Len(s.index), Len(s.documents))}

\* The entries of the index a search loads.
PersistedEntries == IndexEntries(LoadIndex(disk))

\* ntotal of the index a search loads.
PersistedTotal == Len(LoadIndex(disk).index)

\* The results of a search with the embedding of text.
SearchText(text, top_k) == SearchResults(Embed(text), top_k)

\* Entry e is among the results of a search with the embedding of its text.
Returned(e, top_k) ==
  \E i \in 1..Len(SearchText(e.chunk_text, top_k)) :
    EntryKey(SearchText(e.chunk_text, top_k)[i]) = e

\* Entry e is among the results that share the highest similarity.
TopMatch(e, top_k) ==
  \E i \in 1..Len(SearchText(e.chunk_text, top_k)) :
    /\ EntryKey(SearchText(e.chunk_text, top_k)[i]) = e
    /\ SearchText(e.chunk_text, top_k)[i].similarity
         = SearchText(e.chunk_text, top_k)[1].similarity

QueryTexts == {<<"a">>, <<"b">>}

\* The chunk row of chunk i (1-based) of the ingestion run of document d.
RunRow(d, i) ==
  [document_id |-> d, chunk_index |-> i - 1, chunk_text |-> runs[d].chunks[i]]

(***************************************************************************)
(* Routing in QAService.ask                                                *)
(***************************************************************************)
\* C1: a request goes to answer_source 'llm' exactly when the retrieved set
\* is empty or its maximum similarity is strictly below
\* similarity_threshold, and to 'knowledge_base' otherwise.  Stated for
\* every request whose language model call does not fail.
C1_RoutesByThreshold ==
  response.status # "none" /\ response.error # "LanguageModelFailure" =>
    /\ response.status = "returned"
    /\ response.answer_source =
         IF \/ response.retrieved = <<>>
            \/ MaxSimilarity(response.retrieved) < similarity_threshold
         THEN "llm" ELSE "knowledge_base"

(***************************************************************************)
(* FAISSVectorStore                                                        *)
(***************************************************************************)
\* C2: after delete_by_document_id(d) has returned, no later search, on any
\* instance on the index path, returns an entry whose document_id is d.
C2_DeletedNeverReturned ==
  \A d \in deleted_ids : \A text \in QueryTexts :
    \A i \in 1..Len(SearchText(text, TOP_K)) :
      SearchText(text, TOP_K)[i].document_id # d

\* C3: delete_by_document_id(d) removes only the entries of d: every entry
\* of another document that the index held before the call is still stored
\* and still returned by search, also after later add_documents calls.
C3_OthersKept ==
  \A e \in kept : e \in PersistedEntries /\ Returned(e, PersistedTotal)

\* C10: once add_documents has returned, a search on any instance returns
\* each added entry as a top match for the vector of its text (entries
\* deleted or cleared since are not counted).
C10_ReadAfterWrite ==
  \A e \in added : TopMatch(e, TOP_K)

(***************************************************************************)
(* KnowledgeBuilder                                                        *)
(***************************************************************************)
\* C4: an ingestion that has ended leaves the committed status of its
\* document completed or failed, whichever step raised.
C4_EndsCompletedOrFailed ==
  \A d \in DocIds :
    task[d] \in {"true", "false", "raised"} /\ docs[d].status # "none" =>
      docs[d].status \in {"completed", "failed"}

\* C5: a document whose status is completed has the rows of all its chunks
\* committed, an entry for each of its chunks in the persisted index, and
\* chunk_count equal to its chunk total.
C5_CompletedIsDurable ==
  \A d \in DocIds :
    docs[d].status = "completed" =>
      /\ docs[d].chunk_count = Len(runs[d].chunks)
      /\ \A i \in 1..Len(runs[d].chunks) :
           /\ RunRow(d, i) \in chunk_rows
           /\ RunRow(d, i) \in PersistedEntries

\* C6: a successful ingestion of document d that produced n chunks sets
\* status completed and chunk_count n, and adds exactly n entries of d to the
\* index, one per chunk index 0..n-1.
C6_OneEntryPerChunk ==
  \A d \in DocIds :
    runs[d].result = "true" =>
      /\ docs[d].status # "none" =>
           docs[d].status = "completed" /\ docs[d].chunk_count = Len(runs[d].chunks)
      /\ runs[d].vectors_added = Len(runs[d].chunks)
      /\ Len(runs[d].records_added) = Len(runs[d].chunks)
      /\ \A i \in 1..Len(runs[d].records_added) :
           EntryKey(runs[d].records_added[i]) = RunRow(d, i)

\* C7: an ingestion in which a step raised does not raise to its caller: it
\* returns False, marks the document failed with the exception's message and
\* leaves the chunk rows it had written stored.
C7_FailureIsRecorded ==
  \A d \in DocIds :
    runs[d].stage \notin {"none", "ok"} =>
      /\ runs[d].result = "false"
      /\ docs[d].status # "none" =>
           /\ docs[d].status = "failed"
           /\ docs[d].error_message = ErrorMessage(runs[d].stage)
           /\ d \notin deleted_ids =>
                \A i \in 1..Len(runs[d].chunks) : RunRow(d, i) \in chunk_rows

\* C8: each entry of the vector index corresponds to exactly one existing
\* chunk row with its (document_id, chunk_index).
C8_NoOrphanEntries ==
  \A e \in PersistedEntries :
    Cardinality({r \in chunk_rows : /\ r.document_id = e.document_id
                                    /\ r.chunk_index = e.chunk_index}) = 1

\* C9: after the ingestions of two distinct documents have both completed,
\* the index holds as many vectors as the two chunk counts together, and a
\* search with the vector of a chunk of either returns that chunk.
C9_BothDocumentsIndexed ==
  \A d1 \in DocIds : \A d2 \in DocIds \ {d1} :
    docs[d1].status = "completed" /\ docs[d2].status = "completed" =>
      /\ PersistedTotal = docs[d1].chunk_count + docs[d2].chunk_count
      /\ \A i \in 1..Len(runs[d1].chunks) :
           ~IsBlank(runs[d1].chunks[i]) => Returned(RunRow(d1, i), TOP_K)

(***************************************************************************)
(* The two persisted files as a pair                                       *)
(***************************************************************************)
\* The vector at position p (1-based) of instance s is the normalised
\* encoding of the text of the metadata record at that position.
Paired(s, p) == s.index[p] = NormalizeL2(Embed(s.documents[p].chunk_text))

\* C11: the index file and the metadata file a search loads come from one
\* write: every vector position a search can return is resolved to the
\* metadata of the entry the vector was added with.
C11_FilesFromOneWrite ==
  \A p \in 1..Min2(Len(LoadIndex(disk).index), Len(LoadIndex(disk).documents)) :
    Paired(LoadIndex(disk), p)

(***************************************************************************)
(* The writers statement by statement on the event loop.  The server runs  *)
(* one process with one event loop and no threads: a callback keeps the    *)
(* loop from its start to its next await or its return.                    *)
(***************************************************************************)
\* An event loop that hands control over between any two statements.
LoopPreempted == TRUE

\* No callback holds the loop.
LoopIdle == loop.running = NoHandler

\* The documents argument of the add_documents call of document d.
LoopDocuments(d, texts) ==
  [i \in 1..Len(texts) |-> [document_id |-> d, chunk_index |-> i - 1,
                            chunk_text |-> texts[i]]]

\* add_documents up to the save: the vectors and the records are added to
\* the instance.  The ingestion coroutine has no await, so this starts a
\* callback of its own.
\* The chunk texts of the add_documents calls of the step-by-step writers.
LoopTexts == {<<<<"a">>>>, <<<<"a">>, <<"b">>>>}

add_mutate ==
  \E h \in Handlers, texts \in LoopTexts :
    /\ h[1] = "add"
    /\ loop.pc[h] = "ready"
    /\ LoopIdle
    /\ vector_store' = [vector_store EXCEPT !["kb"] =
                          AddToStore(@, LoopDocuments(h[2], texts), EmbedBatch(texts))]
    /\ loop' = [loop EXCEPT !.running = h, !.pc[h] = "mutated", !.texts[h] = texts]
    /\ UNCHANGED <<docs, chunk_rows, next_id, files, task, disk, qa_logs, response,
                   runs, deleted_ids, kept, added, steps, unit_vars>>

\* _save_index, first write: faiss.write_index.
write_index ==
  \E h \in Handlers :
    /\ h[1] = "add"
    /\ loop.running = h
    /\ loop.pc[h] = "mutated"
    /\ disk' = [disk EXCEPT !.index_file = DataFile(vector_store["kb"].index)]
    /\ loop' = [loop EXCEPT !.pc[h] = "index_written"]
    /\ UNCHANGED <<docs, chunk_rows, next_id, files, task, vector_store, qa_logs,
                   response, runs, deleted_ids, kept, added, steps, unit_vars>>

\* _save_index, second write: pickle.dump; add_documents returns and the
\* callback ends.
write_documents ==
  \E h \in Handlers :
    /\ h[1] = "add"
    /\ loop.running = h
    /\ loop.pc[h] = "index_written"
    /\ disk' = [disk EXCEPT !.docs_file = DataFile(vector_store["kb"].documents)]
    /\ loop' = [loop EXCEPT
                  !.running = NoHandler,
                  !.pc[h] = "done",
                  !.serial = AddDocuments(@.store, @.disk,
                                          LoopDocuments(h[2], loop.texts[h]),
                                          EmbedBatch(loop.texts[h]), "ok")]
    /\ UNCHANGED <<docs, chunk_rows, next_id, files, task, vector_store, qa_logs,
                   response, runs, deleted_ids, kept, added, steps, unit_vars>>

\* The delete route up to its await of the storage service: the loop is free
\* again.
delete_request ==
  \E h \in Handlers :
    /\ h[1] = "delete"
    /\ loop.pc[h] = "ready"
    /\ LoopIdle
    /\ loop' = [loop EXCEPT !.pc[h] = "awaiting"]
    /\ UNCHANGED <<docs, chunk_rows, next_id, files, task, vector_store, disk, qa_logs,
                   response, runs, deleted_ids, kept, added, steps, unit_vars>>

\* delete_by_document_id up to the save: it returns when the instance holds
\* no entry of the document, and re-initialises the index otherwise.
delete_mutate ==
  \E h \in Handlers :
    /\ h[1] = "delete"
    /\ loop.pc[h] = "awaiting"
    /\ LoopIdle
    /\ IF Len(NewDocuments(vector_store["kb"].documents, h[2]))
            = Len(vector_store["kb"].documents)
       THEN /\ loop' = [loop EXCEPT
                          !.pc[h] = "done",
                          !.serial = DeleteByDocumentId(@.store, @.disk, h[2])]
            /\ UNCHANGED vector_store
       ELSE /\ loop' = [loop EXCEPT !.running = h, !.pc[h] = "mutated"]
            /\ vector_store' = [vector_store EXCEPT !["kb"] = InitIndex]
    /\ UNCHANGED <<docs, chunk_rows, next_id, files, task, disk, qa_logs, response,
                   runs, deleted_ids, kept, added, steps, unit_vars>>

\* The _save_index call of delete_by_document_id; the callback ends.
delete_save ==
  \E h \in Handlers :
    /\ h[1] = "delete"
    /\ loop.running = h
    /\ loop.pc[h] = "mutated"
    /\ disk' = SaveIndex(vector_store["kb"], disk, "ok")
    /\ loop' = [loop EXCEPT
                  !.running = NoHandler,
                  !.pc[h] = "done",
                  !.serial = DeleteByDocumentId(@.store, @.disk, h[2])]
    /\ UNCHANGED <<docs, chunk_rows, next_id, files, task, vector_store, qa_logs,
                   response, runs, deleted_ids, kept, added, steps, unit_vars>>

NextLoop ==
  \/ add_mutate
  \/ write_index
  \/ write_documents
  \/ delete_request
  \/ delete_mutate
  \/ delete_save

SpecLoop == Init /\ [][NextLoop]_vars

\* Handler h is between its change of the instance and the end of its save.
InSection(h) == loop.pc[h] \in {"mutated", "index_written"}

\* C12: the mutate-then-persist sections of add_documents and of
\* delete_by_document_id never overlap, and whenever no section is open the
\* instance and the files are what the calls give when run one after another
\* in the order in which their sections ended.
C12_SectionsSerialized ==
  /\ \A h1 \in Handlers : \A h2 \in Handlers \ {h1} : ~(InSection(h1) /\ InSection(h2))
  /\ loop.running = NoHandler =>
       /\ vector_store["kb"] = loop.serial.store
       /\ disk = loop.serial.disk

\* An add is between its two writes while a delete request waits for the
\* loop and another add has not started.
C12_Witness ==
  \E h1 \in Handlers : \E h2 \in Handlers : \E h3 \in Handlers :
    /\ loop.pc[h1] = "index_written"
    /\ loop.pc[h2] = "awaiting"
    /\ h3[1] = "add" /\ loop.pc[h3] = "ready"

C14_IdsNeverReused ==
  [][next_id' = next_id + 1 =>
       \A n \in Range(vector_store'["kb"].documents) \ Range(vector_store["kb"].documents) :
         \A o \in Range(vector_store["kb"].documents) \cup Range(LoadIndex(disk).documents) :
           n.id > o.id]_vars

(***************************************************************************)
(* Loading damaged files                                                   *)
(***************************************************************************)
\* What can happen to the two files outside the program: one of them is
\* removed, truncated to zero bytes or overwritten with bytes that
\* faiss.read_index / pickle.load cannot read.
damage_files ==
  \E which \in {"index_file", "docs_file"},
     file \in {MissingFile, ZeroByteFile, GarbageFile} :
    /\ disk' = [disk EXCEPT ![which] = file]
    /\ UNCHANGED <<aux_vars, docs, chunk_rows, next_id, files, task, vector_store,
                   qa_logs, response, runs, deleted_ids, kept, added>>

NextLoad ==
  \/ add_documents({"ok"}, MaxDocs)
  \/ damage_files
  \/ search

SpecLoad == Init /\ [][NextLoad]_vars

\* Either file is missing, zero-byte or unreadable.
BadFiles == disk.index_file.kind # "data" \/ disk.docs_file.kind # "data"

\* C15: whenever either persisted file is missing, zero-byte or unreadable,
\* the instance after _load_index is the empty index (index None, documents
\* empty), never a partially loaded pair; this is what a search leaves in
\* the instance that ran it.
C15_LoadFallsBackToEmpty ==
  [][BadFiles /\ next_id' = next_id /\ disk' = disk /\ vector_store' # vector_store =>
       /\ LoadIndex(disk) = EmptyStore
       /\ \E s \in Stores : vector_store' = [vector_store EXCEPT ![s] = EmptyStore]]_vars

\* The writer's instance, which had added entries, has searched while a
\* readable index file was paired with an unreadable metadata file.
C15_Witness ==
  /\ next_id > 1
  /\ vector_store["kb"] = EmptyStore
  /\ disk.index_file.kind = "data"
  /\ disk.docs_file.kind = "garbage"

(***************************************************************************)
(* The shape of a search answer                                            *)
(***************************************************************************)
\* The texts whose embeddings are searched with: both chunk texts and a
\* blank text, whose embedding is the zero vector.
SearchQueries == QueryTexts \cup {<<SP>>}

\* The results are in descending similarity.
Descending(results) ==
  \A i \in 1..(Len(results) - 1) : results[i].similarity >= results[i + 1].similarity

\* C16: search(q, k) returns at most k entries, in descending similarity;
\* it returns no more entries than the index holds, exactly min(k, ntotal)
\* when every vector has its metadata, and the empty sequence when the
\* index has no entries (files missing, zero-byte, unreadable, or an index
\* of zero vectors).
C16_AtMostKDescending ==
  \A text \in SearchQueries, k \in 1..TOP_K :
    /\ Len(SearchText(text, k)) <= k
    /\ Len(SearchText(text, k)) <= PersistedTotal
    /\ Descending(SearchText(text, k))
    /\ Len(LoadIndex(disk).documents) >= PersistedTotal
         => Len(SearchText(text, k)) = Min2(k, PersistedTotal)
    /\ PersistedTotal = 0 => SearchText(text, k) = <<>>

\* The index holds more than two entries and a search for the two nearest
\* returns exactly two, the nearer one first.
C16_Witness ==
  /\ PersistedTotal > 2
  /\ Len(SearchText(<<"a">>, 2)) = 2
  /\ SearchText(<<"a">>, 2)[1].similarity > SearchText(<<"a">>, 2)[2].similarity
  /\ Len(SearchText(<<"a">>, TOP_K)) = PersistedTotal

(***************************************************************************)
(* The two answer modes of QAService.ask                                   *)
(***************************************************************************)
\* What the retriever finds for the question of the log row that the step
\* appends, in the state the request starts in.
AskedChunks == Retrieve(LoadIndex(disk), qa_logs'[Len(qa_logs')].question, TOP_K, docs)

\* The step is a request whose language model call, if reached, succeeds.
AskStep ==
  /\ Len(qa_logs') = Len(qa_logs) + 1
  /\ qa_logs'[Len(qa_logs')].error # "LanguageModelFailure"

\* C17: a request whose retrieved set is empty or below the threshold gets
\* a prompt without passage text and a response with answer_source 'llm',
\* no sources, and the disclaimer in front of the model's text.
C17_UngroundedAnswer ==
  [][AskStep /\ ~UseKnowledgeBase(AskedChunks) =>
       /\ response'.status = "returned"
       /\ response'.answer_source = "llm"
       /\ response'.context_chunks = <<>>
       /\ response'.sources = <<>>
       /\ response'.disclaimer]_vars

\* The position in chunks of the first chunk of document d.
FirstOf(chunks, d) ==
  CHOOSE j \in 1..Len(chunks) :
    /\ chunks[j].document_id = d
    /\ \A i \in 1..(j - 1) : chunks[i].document_id # d

\* sources names every document of chunks once, in the order of first
\* occurrence, with the chunk index and similarity of that occurrence.
SourcesOf(sources, chunks) ==
  /\ sources # <<>>
  /\ {sources[i].document_id : i \in 1..Len(sources)}
       = {chunks[j].document_id : j \in 1..Len(chunks)}
  /\ \A i, j \in 1..Len(sources) :
       i < j => FirstOf(chunks, sources[i].document_id)
                  < FirstOf(chunks, sources[j].document_id)
  /\ \A i \in 1..Len(sources) :
       /\ sources[i].chunk_index
            = chunks[FirstOf(chunks, sources[i].document_id)].chunk_index
       /\ sources[i].similarity
            = chunks[FirstOf(chunks, sources[i].document_id)].similarity

\* C18: a request whose best retrieved similarity reaches the threshold
\* gets a response with answer_source 'knowledge_base' whose sources are
\* non-empty and name each document of the retrieved top-k once, in the
\* order of first occurrence, with the chunk index and similarity of that
\* occurrence, and no document outside the retrieved chunks.
C18_GroundedSources ==
  [][AskStep /\ UseKnowledgeBase(AskedChunks) =>
       /\ response'.status = "returned"
       /\ response'.answer_source = "knowledge_base"
       /\ SourcesOf(response'.sources, AskedChunks)]_vars

(***************************************************************************)
(* Retriever.retrieve                                                      *)
(***************************************************************************)
\* The positions of the search results whose owning document has a row.
Existing(results) == {i \in 1..Len(results) : docs[results[i].document_id].status # "none"}

\* The values of top_k a retrieval is made with: the default, and one
\* smaller than the number of entries a two-document index holds.
RetrieveTopK == {2, TOP_K}

\* The n-th smallest position in keep.
NthOf(keep, n) == CHOOSE i \in keep : Cardinality({j \in keep : j <= i}) = n

\* retrieved is the subsequence of results at the positions in keep, in the
\* same order, each with the file name of its document.
EnrichedSubsequence(retrieved, results, keep) ==
  /\ Len(retrieved) = Cardinality(keep)
  /\ \A n \in 1..Len(retrieved) :
       /\ retrieved[n].chunk_id = results[NthOf(keep, n)].chunk_id
       /\ retrieved[n].document_id = results[NthOf(keep, n)].document_id
       /\ retrieved[n].chunk_index = results[NthOf(keep, n)].chunk_index
       /\ retrieved[n].chunk_text = results[NthOf(keep, n)].chunk_text
       /\ retrieved[n].similarity = results[NthOf(keep, n)].similarity
       /\ retrieved[n].file_name = FileName(retrieved[n].document_id)

MaxLen == 5

\* The characters of the texts: a letter, a sentence end, a space and a
\* newline.
Alphabet == {"a", ".", SP, NL}

\* Every text of at most MaxLen characters.
ChunkerTexts == UNION {[1..n -> Alphabet] : n \in 0..MaxLen}

\* Nothing but the chunker is in use.
IdleSystem ==
  /\ docs = [d \in DocIds |-> NoRow]
  /\ chunk_rows = {}
  /\ next_id = 1
  /\ files = [d \in DocIds |-> NoFile]
  /\ task = [d \in DocIds |-> "none"]
  /\ vector_store = [s \in Stores |-> EmptyStore]
  /\ disk = [index_file |-> MissingFile, docs_file |-> MissingFile]
  /\ qa_logs = <<>>
  /\ response = NoResponse
  /\ runs = [d \in DocIds |-> NoRun]
  /\ deleted_ids = {}
  /\ kept = {}
  /\ added = {}
  /\ loop = IdleLoop
  /\ steps = IdleSteps

InitChunk ==
  /\ chunker_text \in ChunkerTexts
  /\ chunker_chunks = <<>>
  /\ char_loop = IdleCharLoop
  /\ chunker_config = DefaultConfig
  /\ IdleEmbedding
  /\ IdleLLM
  /\ IdleSystem

\* chunker.chunk(text): the returned list is recorded.
chunk ==
  /\ chunker_chunks = <<>>
  /\ chunker_chunks' = <<Chunk(chunker_text, chunker_config.chunk_size,
                               chunker_config.chunk_overlap)>>
  /\ UNCHANGED <<chunker_text, chunker_config, char_loop, embedding_vars, llm_calls, loop, steps, docs, chunk_rows, next_id,
                 files, task,
                 vector_store,
                 disk, qa_logs, response, runs, deleted_ids, kept, added>>

SpecChunk == InitChunk /\ [][chunk]_vars

\* C20: for a text that is not empty and not only whitespace and whose
\* cleaned form is at most chunk_size characters long, chunk returns
\* exactly one chunk, with index 0 and the cleaned form as its text.
C20_ShortTextOneChunk ==
  /\ Len(chunker_chunks) = 1
  /\ chunker_text # <<>>
  /\ Strip(chunker_text) # <<>>
  /\ Len(CleanText(chunker_text)) <= chunk_size
  => /\ Len(chunker_chunks[1]) = 1
     /\ chunker_chunks[1][1].index = 0
     /\ chunker_chunks[1][1].text = CleanText(chunker_text)

\* A text longer than chunk_size whose cleaned form fits has been chunked
\* into one chunk that differs from the text as it came.
C20_Witness ==
  /\ Len(chunker_chunks) = 1
  /\ Len(chunker_text) > chunk_size
  /\ Len(chunker_chunks[1]) = 1
  /\ chunker_chunks[1][1].index = 0
  /\ chunker_chunks[1][1].text # chunker_text

(***************************************************************************)
(* Chunker.chunk under every configuration                                 *)
(***************************************************************************)
\* Chunker(chunk_size, chunk_overlap) with an overlap smaller than the
\* chunk size.
Configs ==
  {c \in [chunk_size : 1..chunk_size, chunk_overlap : 0..chunk_overlap] :
     c.chunk_overlap < c.chunk_size}

\* The scenario of three paragraphs of 200 characters under
\* settings.CHUNK_SIZE = 500 and settings.CHUNK_OVERLAP = 50, with every
\* length divided by ten; the separator keeps its two characters.  The
\* sums that decide the packing compare the same way:
\* 202 + 200 <= 500 < 404 + 200 and 22 + 20 <= 50 < 44 + 20.
ParagraphLength == 20

ScenarioChunkSize == 50

ScenarioOverlap == 5

SettingsConfig == [chunk_size |-> ScenarioChunkSize, chunk_overlap |-> ScenarioOverlap]

\* A paragraph of ParagraphLength times the character c.
Paragraph(c) == [i \in 1..ParagraphLength |-> c]

\* Three paragraphs, the paragraph separator between them.
ScenarioTexts ==
  {Paragraph(a) \o separator \o Paragraph(b) \o separator \o Paragraph(c) :
     a \in {"a", "."}, b \in {"a", "."}, c \in {"a", "."}}

\* The short texts under every small configuration, and the
\* three-paragraph texts under the configuration of the settings.
InitChunkConfigs ==
  /\ \/ chunker_text \in ChunkerTexts /\ chunker_config \in Configs
     \/ chunker_text \in ScenarioTexts /\ chunker_config = SettingsConfig
  /\ chunker_chunks = <<>>
  /\ char_loop = IdleCharLoop
  /\ IdleEmbedding
  /\ IdleLLM
  /\ IdleSystem

SpecChunkConfigs == InitChunkConfigs /\ [][chunk]_vars

\* The chunk list of the call that has returned.
Chunks == chunker_chunks[1]

\* The list came from _chunk_by_separator or _chunk_by_characters.
LongText == Len(CleanText(chunker_text)) > chunker_config.chunk_size

\* C21: the chunks returned by chunk, by paragraph packing or by the
\* fixed-width fallback, are numbered 0, 1, 2, ... in order, and each has
\* start_pos < end_pos.
C21_IndicesContiguous ==
  Len(chunker_chunks) = 1 =>
    \A i \in 1..Len(Chunks) :
      /\ Chunks[i].index = i - 1
      /\ Chunks[i].start_pos < Chunks[i].end_pos

\* A text longer than the chunk size has been cut into at least three
\* chunks.
C21_Witness ==
  /\ Len(chunker_chunks) = 1
  /\ LongText
  /\ Len(Chunks) >= 3
  /\ Chunks[3].index = 2

(***************************************************************************)
(* Three paragraphs under the configuration of the settings (one to ten)   *)
(***************************************************************************)
ScenarioChunked ==
  /\ Len(chunker_chunks) = 1
  /\ chunker_text \in ScenarioTexts
  /\ chunker_config = SettingsConfig

\* C22 as stated: the three-paragraph text gives exactly one chunk.
C22_OneChunk == ScenarioChunked => Len(Chunks) = 1

\* C22, amended: the three-paragraph text gives exactly two chunks: the
\* first two paragraphs, then the last chunk_overlap characters of the
\* first buffer (the tail of paragraph 2 and the separator) followed by
\* paragraph 3.
C22_TwoChunks ==
  ScenarioChunked =>
    /\ Len(Chunks) = 2
    /\ Chunks[1].index = 0
    /\ Chunks[1].text = SubSeq(chunker_text, 1, 2 * ParagraphLength + Len(separator))
    /\ Chunks[2].index = 1
    /\ Chunks[2].text =
         SubSeq(chunker_text,
                2 * ParagraphLength + 2 * Len(separator) - ScenarioOverlap + 1,
                Len(chunker_text))

\* The three-paragraph text has been chunked, by paragraph packing.
C22_Witness ==
  /\ ScenarioChunked
  /\ Len(chunker_text) = 3 * ParagraphLength + 2 * Len(separator)
  /\ Len(Chunks) = 2
  /\ Chunks = ChunkBySeparator(chunker_text, ScenarioChunkSize, ScenarioOverlap)

(***************************************************************************)
(* Chunk texts                                                             *)
(***************************************************************************)
\* C23: every chunk that chunk returns, for any text and any chunk_size
\* and chunk_overlap, has a text with at least one character that is not
\* whitespace.
C23_NoBlankChunk ==
  Len(chunker_chunks) = 1 =>
    \A i \in 1..Len(Chunks) : Strip(Chunks[i].text) # <<>>

(***************************************************************************)
(* SentenceTransformerEmbedding.embed_batch on its own                     *)
(***************************************************************************)
MaxBatch == 3

\* The texts of a batch: two words, a whitespace-only text and the empty
\* text.
BatchItems == {<<"a">>, <<"b">>, <<SP>>, <<>>}

\* Every list of at most MaxBatch texts.
BatchTexts == UNION {[1..n -> BatchItems] : n \in 0..MaxBatch}

InitEmbed ==
  /\ embed_texts \in BatchTexts
  /\ embed_vectors = <<>>
  /\ IdleChunker
  /\ IdleLLM
  /\ IdleSystem

\* embedding_service.embed_batch(texts): the returned list is recorded.
embed_batch ==
  /\ embed_vectors = <<>>
  /\ embed_vectors' = <<EmbedBatch(embed_texts)>>
  /\ UNCHANGED <<embed_texts, chunker_vars, llm_calls, loop, steps, docs, chunk_rows, next_id,
                 files, task, vector_store, disk, qa_logs, response, runs, deleted_ids,
                 kept, added>>

SpecEmbed == InitEmbed /\ [][embed_batch]_vars

\* The vector list of the call that has returned.
Vectors == embed_vectors[1]

\* C24: embed_batch(texts) returns len(texts) vectors, the i-th being the
\* vector of the i-th text: the zero vector for an empty or whitespace-only
\* text, the encoding of the text otherwise.
C24_OneVectorPerText ==
  Len(embed_vectors) = 1 =>
    /\ Len(Vectors) = Len(embed_texts)
    /\ \A i \in 1..Len(embed_texts) :
         Vectors[i] = IF IsBlank(embed_texts[i]) THEN ZeroVector
                      ELSE Encode(embed_texts[i])

(***************************************************************************)
(* services/llm.py: DeepSeekLLM.chat under its retry decorator             *)
(***************************************************************************)
MaxChats == 2

\* @retry(stop=stop_after_attempt(3), ...)
stop_after_attempt == 3

\* What one pass through the body of chat can meet: a well-formed answer;
\* an exception of requests.post or raise_for_status (connection error,
\* timeout, HTTP status); a body that response.json() cannot decode; an
\* answer without choices.
AttemptOutcomes == {"ok", "request_exception", "invalid_json", "no_choices"}

\* The class response.json() raises for an undecodable body: a
\* RequestException in the newer requests releases, a plain ValueError in
\* the older ones.
JsonErrors == {"RequestException", "ValueError"}

\* The exception a pass ends with, by its class as the decorator sees it.
ExceptionOf(outcome, json_error) ==
  CASE outcome = "ok" -> None
    [] outcome = "request_exception" -> "RequestException"
    [] outcome = "invalid_json" -> json_error
    [] outcome = "no_choices" -> "ValueError"

\* A decorator that retries after every exception.
RetryIfAnyException(exception) == exception # None

\* retry=retry_if_exception_type((requests.RequestException, requests.Timeout))
RetryIf(exception) == exception = "RequestException"

\* stop=stop_after_attempt(3), asked after attempt number attempt_number.
Stop(attempt_number) == attempt_number >= stop_after_attempt

\* The call after one more pass through the body with the given outcome.
AfterAttempt(call, outcome, exception) ==
  [call EXCEPT
     !.attempts = Append(@, [outcome |-> outcome, exception |-> exception]),
     !.status = IF exception = None THEN "returned"
                ELSE IF RetryIf(exception) /\ ~Stop(Len(call.attempts) + 1) THEN "calling"
                ELSE "raised",
     !.error = IF exception = None THEN None
               ELSE IF ~RetryIf(exception) THEN exception
               ELSE IF Stop(Len(call.attempts) + 1) THEN "RetryError"
               ELSE None]

\* No chat call is under way.
ChatIdle ==
  IF llm_calls = <<>> THEN TRUE ELSE llm_calls[Len(llm_calls)].status # "calling"

\* llm.chat(messages) is called.
chat ==
  \E json_error \in JsonErrors :
    /\ ChatIdle
    /\ Len(llm_calls) < MaxChats
    /\ llm_calls' = Append(llm_calls, [json_error |-> json_error, attempts |-> <<>>,
                                       status |-> "calling", error |-> None])
    /\ UNCHANGED <<chunker_vars, embedding_vars, loop, steps, docs, chunk_rows, next_id, files,
                   task, vector_store, disk, qa_logs, response, runs, deleted_ids, kept,
                   added>>

\* One pass through the body of chat: the HTTP request and what the
\* decorator does with its result.
http_attempt ==
  \E outcome \in AttemptOutcomes :
    /\ ~ChatIdle
    /\ llm_calls' = [llm_calls EXCEPT ![Len(llm_calls)] =
                       AfterAttempt(@, outcome, ExceptionOf(outcome, @.json_error))]
    /\ UNCHANGED <<chunker_vars, embedding_vars, loop, steps, docs, chunk_rows, next_id, files,
                   task, vector_store, disk, qa_logs, response, runs, deleted_ids, kept,
                   added>>

InitLLM ==
  /\ llm_calls = <<>>
  /\ IdleChunker
  /\ IdleEmbedding
  /\ IdleSystem

NextLLM == chat \/ http_attempt

SpecLLM == InitLLM /\ [][NextLLM]_vars

\* C25: a chat call makes at most three HTTP attempts; every attempt but
\* the last ended with a requests exception (a transient network or HTTP
\* error); a successful attempt is the last one and the call returns; an
\* answer without choices is the last attempt and the call raises.
C25_AtMostThreeAttempts ==
  \A c \in 1..Len(llm_calls) :
    /\ Len(llm_calls[c].attempts) <= 3
    /\ \A i \in 1..Len(llm_calls[c].attempts) :
         /\ i < Len(llm_calls[c].attempts)
              => llm_calls[c].attempts[i].exception = "RequestException"
         /\ llm_calls[c].attempts[i].outcome = "ok"
              => i = Len(llm_calls[c].attempts) /\ llm_calls[c].status = "returned"
         /\ llm_calls[c].attempts[i].outcome = "no_choices"
              => i = Len(llm_calls[c].attempts) /\ llm_calls[c].status = "raised"
    /\ llm_calls[c].status = "returned"
         => llm_calls[c].attempts[Len(llm_calls[c].attempts)].outcome = "ok"

\* One call succeeded on its third attempt, after two requests exceptions;
\* another failed on its first attempt with an answer without choices.
C25_Witness ==
  /\ \E c \in 1..Len(llm_calls) :
       /\ Len(llm_calls[c].attempts) = 3
       /\ llm_calls[c].attempts[1].outcome = "request_exception"
       /\ llm_calls[c].attempts[3].outcome = "ok"
       /\ llm_calls[c].status = "returned"
  /\ \E c \in 1..Len(llm_calls) :
       /\ Len(llm_calls[c].attempts) = 1
       /\ llm_calls[c].attempts[1].outcome = "no_choices"
       /\ llm_calls[c].status = "raised"

(***************************************************************************)
(* What a failing ingestion leaves alone                                   *)
(***************************************************************************)
\* The step is an ingestion run of document d in which a step raised.
FailingRun(d) == runs'[d] # runs[d] /\ runs'[d].stage \notin {"none", "ok"}

\* The step leaves the row, the chunk rows and the index entries of
\* document o as they were, in the instance and in the files.
Untouched(o) ==
  /\ docs'[o] = docs[o]
  /\ {r \in chunk_rows' : r.document_id = o} = {r \in chunk_rows : r.document_id = o}
  /\ {e \in IndexEntries(vector_store'["kb"]) : e.document_id = o}
       = {e \in IndexEntries(vector_store["kb"]) : e.document_id = o}
  /\ {e \in IndexEntries(LoadIndex(disk')) : e.document_id = o}
       = {e \in IndexEntries(LoadIndex(disk)) : e.document_id = o}

\* C26: a failing ingestion of document d leaves the status, chunk_count,
\* error_message and chunk rows of every other document and the index
\* entries of every other document as they were, and does not raise out of
\* the ingestion task.
C26_FailureChangesOnlyItsDocument ==
  [][\A d \in DocIds :
       FailingRun(d) =>
         /\ runs'[d].result # "raised"
         /\ \A o \in DocIds \ {d} : Untouched(o)]_vars

(***************************************************************************)
(* A failed question                                                       *)
(***************************************************************************)
\* The step is a QAService.ask call that raises to its caller.
FailedAsk == response'.status = "raised" /\ <<qa_logs, response>>' # <<qa_logs, response>>

C28_PendingThenTaskThenResponse ==
  \A d \in DocIds :
    /\ Step(d).pc # "none" => docs[d].status # "none"
    /\ Step(d).handler = "task_created" =>
         docs[d].status = "pending" /\ Step(d).pc = "scheduled" /\ steps.running = d
    /\ Step(d).handler = "returned" /\ Step(d).sent = "no" /\ steps.running = 0 =>
         ENABLED Send(d)

\* The response of an upload went out while the document was pending and its
\* ingestion had not started.
C28_Witness ==
  \E d \in DocIds : Step(d).sent = "pending" /\ Step(d).pc = "scheduled"

(***************************************************************************)
(* C29: the status of a document during its ingestion                      *)
(***************************************************************************)
\* Where the task stands between the first status update and the last: the
\* parsing, chunking, embedding and indexing are in progress.
WorkStages == {"processing", "chunked", "flushed", "embedded", "added"}

\* C29: while the parsing, chunking, embedding and indexing of a run are in
\* progress, the run has set the status to processing and a reader of the
\* documents table finds processing; and a run that has ended has changed
\* the status from pending to processing and then exactly once more, to
\* completed or to failed.
C29_ProcessingVisibleThenOneEnd ==
  \A d \in DocIds :
    /\ Step(d).pc \in WorkStages =>
         Step(d).status[1] = "processing" /\ docs[d].status = "processing"
    /\ Step(d).pc = "done" =>
         Step(d).status \in {<<"processing", "completed">>, <<"processing", "failed">>}

(***************************************************************************)
(* C30: chunk rows, then one embedding call, then one index call           *)
(***************************************************************************)
\* The row (and the metadata record) of the i-th chunk of document d.
RowOf(d, i) ==
  [document_id |-> d, chunk_index |-> Step(d).chunks[i].index,
   chunk_text |-> Step(d).chunks[i].text]

\* C30: in a run, embed_batch is called at most once and only when the rows
\* of all chunks have been written, with all chunk texts in chunk order;
\* add_documents is called at most once and only after embed_batch, with
\* one metadata record per chunk; a run that gets past a step has made its
\* call; and when the embedding or the index step fails, the rows of all
\* chunks are in the chunks table after the run.
C30_RowsThenEmbedThenAdd ==
  \A d \in DocIds :
    /\ Len(Step(d).embed_calls) <= 1
    /\ Len(Step(d).add_calls) <= 1
    /\ Step(d).pc \in {"none", "scheduled", "processing", "chunked", "flushed"} =>
         Step(d).embed_calls = <<>>
    /\ Step(d).pc \in {"none", "scheduled", "processing", "chunked", "flushed", "embedded"} =>
         Step(d).add_calls = <<>>
    /\ Step(d).pc \in {"embedded", "added"} => Len(Step(d).embed_calls) = 1
    /\ Step(d).pc = "added" \/ (Step(d).pc = "done" /\ Step(d).out.run.stage = "ok") =>
         Len(Step(d).embed_calls) = 1 /\ Len(Step(d).add_calls) = 1
    /\ Len(Step(d).embed_calls) = 1 =>
         /\ Len(Step(d).flushed) = Len(Step(d).chunks)
         /\ \A i \in 1..Len(Step(d).chunks) : Step(d).flushed[i] = RowOf(d, i)
         /\ Len(Step(d).embed_calls[1]) = Len(Step(d).chunks)
         /\ \A i \in 1..Len(Step(d).chunks) :
              Step(d).embed_calls[1][i] = Step(d).chunks[i].text
    /\ Len(Step(d).add_calls) = 1 =>
         /\ Len(Step(d).embed_calls) = 1
         /\ Len(Step(d).add_calls[1].documents) = Len(Step(d).chunks)
         /\ \A i \in 1..Len(Step(d).chunks) : Step(d).add_calls[1].documents[i] = RowOf(d, i)
    /\ Step(d).pc = "done" /\ Step(d).out.run.stage \in {"embed", "no_embeddings", "add"} =>
         \A i \in 1..Len(Step(d).chunks) : RowOf(d, i) \in chunk_rows

\* A run of a document of several chunks has ended at a failing
\* add_documents call: embed_batch and add_documents were called once each
\* and the rows of the chunks are in the chunks table.
C30_Witness ==
  \E d \in DocIds :
    /\ Step(d).pc = "done"
    /\ Step(d).out.run.stage = "add"
    /\ Len(Step(d).chunks) > 1
    /\ Len(Step(d).embed_calls) = 1
    /\ Len(Step(d).add_calls) = 1
    /\ \A i \in 1..Len(Step(d).chunks) : RowOf(d, i) \in chunk_rows

(***************************************************************************)
(* C31: files without content                                              *)
(***************************************************************************)
\* The file has no content for the ingestion: its type is unsupported, its
\* parsed text is empty, or its text is whitespace only.
NoContent(file) ==
  ~file.supported \/ (file.readable /\ (file.text = <<>> \/ Strip(file.text) = <<>>))

\* The step is the run of the ingestion of d.
RunOf(d) == task[d] = "scheduled" /\ task'[d] # "scheduled"

\* C31: the ingestion of a file whose type is unsupported, whose parsed text
\* is empty or whose text is whitespace only ends with status failed and an
\* error message, returns False, and adds no chunk row and no entry to the
\* vector index, in memory or persisted.
C31_NoContentFails ==
  [][\A d \in DocIds :
       RunOf(d) /\ NoContent(files[d]) =>
         /\ docs'[d].status = "failed"
         /\ docs'[d].error_message # None
         /\ task'[d] = "false"
         /\ chunk_rows' = chunk_rows
         /\ vector_store' = vector_store
         /\ disk' = disk]_vars

\* A whitespace-only file has been ingested: the chunker gave no chunk, the
\* run failed at the empty list of embeddings and returned False.
C31_Witness ==
  \E d \in DocIds :
    /\ task[d] = "false"
    /\ docs[d].status = "failed"
    /\ files[d].text = TextSpace
    /\ runs[d].stage = "no_embeddings"

(***************************************************************************)
(* C32: chunk positions                                                    *)
(***************************************************************************)
\* C32: start_pos and end_pos of every chunk that chunk returns are
\* positions in the cleaned text, 0 <= start_pos < end_pos <= its length,
\* and the text of the chunk is the cleaned text from start_pos to end_pos
\* with the whitespace around it stripped.
C32_PositionsInCleanedText ==
  Len(chunker_chunks) = 1 =>
    \A i \in 1..Len(Chunks) :
      /\ 0 <= Chunks[i].start_pos
      /\ Chunks[i].start_pos < Chunks[i].end_pos
      /\ Chunks[i].end_pos <= Len(CleanText(chunker_text))
      /\ Chunks[i].text =
           Strip(Slice(CleanText(chunker_text), Chunks[i].start_pos, Chunks[i].end_pos))

(***************************************************************************)
(* C33: the overlap of paragraph packing                                   *)
(***************************************************************************)
\* The chunk list came from _chunk_by_separator.
Packed ==
  /\ Len(chunker_chunks) = 1
  /\ LongText
  /\ Len(ChunkBySeparator(CleanText(chunker_text), chunker_config.chunk_size,
                          chunker_config.chunk_overlap)) > 1

\* The last n characters of s, all of s if it is shorter.
LastN(s, n) == Slice(s, Max2(0, Len(s) - n), Len(s))

IsPrefix(p, s) == Len(p) <= Len(s) /\ SubSeq(s, 1, Len(p)) = p

\* C33 as stated: in paragraph packing the text of chunk i+1 begins with the
\* last chunk_overlap characters of the text of chunk i.
C33_TextOverlap ==
  Packed =>
    \A i \in 1..(Len(Chunks) - 1) :
      IsPrefix(LastN(Chunks[i].text, chunker_config.chunk_overlap), Chunks[i + 1].text)

\* C33, amended: the emitted buffer is the text of chunk i followed by the
\* separator, and the next buffer is seeded with its last chunk_overlap
\* characters; so the text of chunk i+1 begins with the last chunk_overlap
\* characters of (the text of chunk i, then the separator), leading
\* whitespace stripped.
C33_BufferOverlap ==
  Packed =>
    \A i \in 1..(Len(Chunks) - 1) :
      IsPrefix(LStrip(LastN(Chunks[i].text \o separator, chunker_config.chunk_overlap)),
               Chunks[i + 1].text)

\* The three-paragraph text with a second paragraph of one character and a
\* third of another: the second chunk begins with the last
\* chunk_overlap - 2 characters of the second paragraph and the separator,
\* and goes on with the third paragraph.
C33_Witness ==
  /\ ScenarioChunked
  /\ Len(Chunks) = 2
  /\ chunker_text[ParagraphLength + Len(separator) + 1] = "a"
  /\ chunker_text[Len(chunker_text)] = "."
  /\ SubSeq(Chunks[2].text, 1, ScenarioOverlap + 1)
       = [i \in 1..(ScenarioOverlap - Len(separator)) |-> "a"] \o separator \o <<".">>

(***************************************************************************)
(* C34: clear                                                              *)
(***************************************************************************)
\* The step is a clear of the knowledge-base instance: nothing is added or
\* deleted, and the instance and the bookkeeping of its entries are empty
\* afterwards.
ClearStep ==
  /\ next_id' = next_id
  /\ deleted_ids' = deleted_ids
  /\ vector_store'["kb"] = InitIndex
  /\ added' = {}
  /\ kept' = {}

\* C34: when clear has returned, a search returns nothing, whatever the
\* query: search loads the persisted files into the instance that runs it,
\* be it the instance that cleared or another one.
C34_ClearedStaysEmpty ==
  [][ClearStep => \A q \in QueryTexts : SearchText(q, TOP_K)' = <<>>]_vars

(***************************************************************************)
(* C35: vectors and metadata records position by position                  *)
(***************************************************************************)
\* Instance s holds as many vectors as metadata records, and each vector
\* belongs to the record at its position.
Aligned(s) ==
  /\ Len(s.index) = Len(s.documents)
  /\ \A p \in 1..Min2(Len(s.index), Len(s.documents)) : Paired(s, p)

\* C35: after every add_documents, delete_by_document_id, clear and reload,
\* with the lists the ingestion passes, every instance of the store and the
\* instance a reload of the files gives hold as many vectors as metadata
\* records, the vector at position p belonging to the record at position p.
C35_VectorsMatchRecords ==
  /\ \A s \in Stores : Aligned(vector_store[s])
  /\ Aligned(LoadIndex(disk))

(***************************************************************************)
(* Chunker._chunk_by_characters, iteration by iteration                    *)
(***************************************************************************)
CharMaxLen == 6

CharMaxSize == 5

\* More iterations than a loop that advances needs for the longest text.
MaxIterations == 8

\* Texts of letters and sentence ends: cleaning leaves them as they are and
\* they have no separator, so chunk hands every one that is longer than
\* chunk_size to _chunk_by_characters.
CharTexts == UNION {[1..n -> {"a", "."}] : n \in 1..CharMaxLen}

\* Chunker(chunk_size, chunk_overlap) with chunk_size >= 1 and
\* 0 <= chunk_overlap < chunk_size.
CharConfigs ==
  {c \in [chunk_size : 1..CharMaxSize, chunk_overlap : 0..(CharMaxSize - 1)] :
     c.chunk_overlap < c.chunk_size}

InitCharLoop ==
  /\ chunker_text \in CharTexts
  /\ chunker_config \in CharConfigs
  /\ chunker_chunks = <<>>
  /\ char_loop = IdleCharLoop
  /\ IdleEmbedding
  /\ IdleLLM
  /\ IdleSystem

\* text[i]: a negative i counts from the end of the text; outside the text
\* the read raises.
PyChar(text, i) ==
  IF 0 <= i /\ i < Len(text) THEN text[i + 1]
  ELSE IF i < 0 /\ 0 - i <= Len(text) THEN text[Len(text) + i + 1]
  ELSE "IndexError"

\* for i in range(end, stop, -1): the end after the scan, or the IndexError
\* of a read.
RECURSIVE ScanBack(_, _, _, _)
ScanBack(text, i, stop, end) ==
  IF i <= stop THEN [raised |-> FALSE, end |-> end]
  ELSE IF PyChar(text, i) = "IndexError" THEN [raised |-> TRUE, end |-> end]
  ELSE IF PyChar(text, i) \in SentenceEnds THEN [raised |-> FALSE, end |-> i + 1]
  ELSE ScanBack(text, i - 1, stop, end)

\* The end of the chunk that starts at start.
EndOf(text, start, size) ==
  IF start + size < Len(text)
  THEN ScanBack(text, start + size,
                Max2(start + (size \div 2), start + size - LookBack), start + size)
  ELSE [raised |-> FALSE, end |-> start + size]

\* One pass of the while loop: the test, the chunk, start = end - overlap.
Iterate(l, scan, overlap) ==
  IF scan.raised THEN [l EXCEPT !.pc = "raised"]
  ELSE [pc |-> "loop", start |-> scan.end - overlap, chunk_index |-> l.chunk_index + 1]

\* chunk calls _chunk_by_characters for a text longer than chunk_size.
chunk_by_characters ==
  /\ char_loop.pc = "idle"
  /\ Len(chunker_text) > chunker_config.chunk_size
  /\ char_loop' = [pc |-> "loop", start |-> 0, chunk_index |-> 0]
  /\ UNCHANGED <<chunker_text, chunker_config, chunker_chunks, embedding_vars, llm_calls,
                 loop, steps, docs, chunk_rows, next_id, files, task, vector_store, disk,
                 qa_logs, response, runs, deleted_ids, kept, added>>

while_iteration ==
  /\ char_loop.pc = "loop"
  /\ char_loop.chunk_index < MaxIterations
  /\ char_loop' =
       IF ~(char_loop.start < Len(chunker_text))
       THEN [char_loop EXCEPT !.pc = "returned"]
       ELSE Iterate(char_loop,
                    EndOf(chunker_text, char_loop.start, chunker_config.chunk_size),
                    chunker_config.chunk_overlap)
  /\ UNCHANGED <<chunker_text, chunker_config, chunker_chunks, embedding_vars, llm_calls,
                 loop, steps, docs, chunk_rows, next_id, files, task, vector_store, disk,
                 qa_logs, response, runs, deleted_ids, kept, added>>

NextCharLoop == chunk_by_characters \/ while_iteration

SpecCharLoop == InitCharLoop /\ [][NextCharLoop]_vars

\* C36: in the fixed-width fallback, for every text and every configuration
\* with chunk_size >= 1 and 0 <= chunk_overlap < chunk_size, the start
\* position grows with every iteration of the loop and is never negative.
C36_StartAdvances ==
  [][char_loop.pc = "loop" /\ char_loop'.pc = "loop" =>
       char_loop'.start > char_loop.start /\ char_loop'.start >= 0]_vars

(***************************************************************************)
(* C37: chunk lengths                                                      *)
(***************************************************************************)
\* C37: the text of every chunk that chunk returns, from paragraph packing
\* or from the fixed-width fallback, has at most chunk_size characters.
C37_AtMostChunkSize ==
  Len(chunker_chunks) = 1 =>
    \A i \in 1..Len(Chunks) : Len(Chunks[i].text) <= chunker_config.chunk_size

(***************************************************************************)
(* C38: the chunks together hold the content                               *)
(***************************************************************************)
\* The characters of s that are not whitespace, in order.
Content(s) == SelectSeq(s, LAMBDA c : ~IsSpace(c))

\* The content of the chunks from the i-th on lies in the content t of the
\* text as stretches that begin no earlier than from, leave no gap after
\* position upto, move forward and end at the end of t.
RECURSIVE CoveredFrom(_, _, _, _, _)
CoveredFrom(t, chunks, i, from, upto) ==
  IF i > Len(chunks) THEN upto = Len(t)
  ELSE \E a \in from..(upto + 1) :
         /\ a + Len(Content(chunks[i].text)) - 1 <= Len(t)
         /\ a + Len(Content(chunks[i].text)) - 1 >= upto
         /\ SubSeq(t, a, a + Len(Content(chunks[i].text)) - 1) = Content(chunks[i].text)
         /\ CoveredFrom(t, chunks, i + 1, a, a + Len(Content(chunks[i].text)) - 1)

\* C38: chunk loses no content: for every text, the chunks in index order
\* are stretches of the cleaned text that follow one another in source
\* order and leave out no character that is not whitespace.
C38_NoContentLost ==
  Len(chunker_chunks) = 1 =>
    CoveredFrom(Content(CleanText(chunker_text)), Chunks, 1, 1, 0)

\* Paragraph packing with a positive overlap has returned several chunks
\* that all hold text.
C38_Witness ==
  /\ Packed
  /\ Len(Chunks) >= 2
  /\ chunker_config.chunk_overlap > 0
  /\ \A i \in 1..Len(Chunks) : Content(Chunks[i].text) # <<>>

(***************************************************************************)
(* C39: delete_document, all or nothing                                    *)
(***************************************************************************)
\* The step is a delete_document(d, db) call that returns ok.
DeleteReturns(d, ok) ==
  /\ d < next_id
  /\ DeleteDocument(d, ~ok, DeleteByDocumentId(vector_store["kb"], disk, d))

\* The index s holds an entry of document d.
HoldsEntryOf(s, d) == \E i \in 1..Len(s.documents) : s.documents[i].document_id = d

\* C39: delete_document is all-or-nothing: when it returns True the document
\* row, its chunk rows and its vector index entries are all gone; when it
\* returns False the document row, its chunk rows and the vector index, in
\* memory and in the files, are unchanged.
C39_DeleteAllOrNothing ==
  [][\A d \in DocIds :
       /\ DeleteReturns(d, TRUE) =>
            /\ docs'[d] = NoRow
            /\ \A r \in chunk_rows' : r.document_id # d
            /\ ~HoldsEntryOf(vector_store'["kb"], d)
       /\ DeleteReturns(d, FALSE) =>
            /\ docs'[d] = docs[d]
            /\ {r \in chunk_rows' : r.document_id = d} = {r \in chunk_rows : r.document_id = d}
            /\ vector_store'["kb"] = vector_store["kb"]
            /\ disk' = disk]_vars

====
